---- MODULE Spec2Model ----
(***************************************************************************)
(* Desk_Calendar: the event store (data_manager.py), the occurrence        *)
(* expander (DataManager.get_events_between_dates) and the reminder        *)
(* scheduler (reminder_manager.py, main.py) as a state machine.            *)
(*                                                                         *)
(* Time is a naive local timestamp counted in whole seconds since          *)
(* 2025-01-01T00:00:00; a date is the day number since 2025-01-01.         *)
(* Python's None is NoneVal for an Optional[datetime] and NoUid for a uid. *)
(* The Chinese literals of the source are written in English:              *)
(*   repeat_rule  "none" "daily" "weekly" "monthly" "yearly"               *)
(*   priority     "high" "medium" "low"                                    *)
(***************************************************************************)
EXTENDS Integers, Sequences, FiniteSets, TLC

VARIABLES
    storage_mode,     \* DataManager.storage_mode: "ics" or "sqlite"
    events_cache,     \* DataManager.events_cache: the list of Event objects
    ics_file,         \* Events.ics: the sequence of VEVENT components on disk
    db_rows,          \* Events.db: the rows of table events, in rowid order
    db_seq,           \* Events.db: sqlite_sequence of the AUTOINCREMENT key
    next_event_id,    \* DataManager._next_event_id
    uuid_next,        \* how many uuid4() values have been drawn
    now,              \* the wall clock, datetime.now()
    current_date,     \* ReminderManager._current_date
    snoozed_ids,      \* MainWindow._snoozed_event_ids
    stack,            \* the call stack of nested event loops (ticks and dialogs)
    emitted,          \* history: how often reminderTriggered was emitted per occurrence
    date_changed,     \* history: how often dateChanged was emitted
    answer,           \* the last result handed to a caller of a pure query
    deferred,         \* history: the snoozes made from a notification
    calls,            \* history: how many calls the windows have made so far
    last              \* history: the last operation, its argument and its result

vars == <<storage_mode, events_cache, ics_file, db_rows, db_seq, next_event_id,
          uuid_next, now, current_date, snoozed_ids, stack, emitted,
          date_changed, answer, deferred, calls, last>>

-----------------------------------------------------------------------------
(* Bounds of the model *)

MaxEvents == 2      \* events the store may hold
MaxId == 3          \* ids the backends may hand out
MaxDay == 1         \* the clock runs over days 0 .. MaxDay
MaxStack == 4       \* frames of nested event loops (a tick and its dialog are two)
MaxSnoozes == 1     \* times the snooze button of a notification dialog is used
MaxCalls == 5       \* calls the windows make in one process lifetime

-----------------------------------------------------------------------------
(* datetime, date, timedelta *)

NoneVal == -1
SecPerMin == 60
SecPerHour == 60 * SecPerMin
SecPerDay == 24 * SecPerHour

At(day, hh, mm, ss) == day * SecPerDay + hh * SecPerHour + mm * SecPerMin + ss

\* datetime.date()
DateOf(t) == t \div SecPerDay

\* datetime.replace(second=0, microsecond=0)
ReplaceSecond0(t) == t - (t % SecPerMin)

\* a _format_dt that writes the date only: the text YYYY-MM-DDT00:00
MutFormatDtDateOnly(dt) ==
    IF dt = NoneVal THEN NoneVal ELSE DateOf(dt) * (SecPerDay \div SecPerMin)

\* Event._format_dt: None for None, else the text YYYY-MM-DDTHH:MM, which is
\* modelled by the number of whole minutes it denotes (texts of this one
\* format compare as these numbers do).
FormatDt(dt) == IF dt = NoneVal THEN NoneVal ELSE dt \div SecPerMin

\* Event._parse_dt on a text that _format_dt wrote (or None)
ParseDt(txt) == IF txt = NoneVal THEN NoneVal ELSE txt * SecPerMin

\* date.weekday(): Monday is 0; 2025-01-01 is a Wednesday
Weekday(d) == (d + 2) % 7

IsLeap(y) == (y % 4 = 0 /\ y % 100 # 0) \/ (y % 400 = 0)

DaysInMonth(y, m) ==
    IF m = 2 THEN (IF IsLeap(y) THEN 29 ELSE 28)
    ELSE IF m \in {4, 6, 9, 11} THEN 30 ELSE 31

RECURSIVE Civil(_, _, _)
Civil(y, m, d) ==
    IF d < DaysInMonth(y, m) THEN [year |-> y, month |-> m, day |-> d + 1]
    ELSE IF m = 12 THEN Civil(y + 1, 1, d - DaysInMonth(y, m))
    ELSE Civil(y, m + 1, d - DaysInMonth(y, m))

\* date.year, date.month, date.day of day number d
CivilOf(d) == Civil(2025, 1, d)

-----------------------------------------------------------------------------
(* Event *)

NoUid == "<None>"

\* uuid.uuid4(): the n-th value drawn, different from every other one
Uuid4(n) == "uuid-" \o ToString(n)

\* Event.__init__: uid if uid else str(uuid.uuid4())
InitUid(uid, n) == IF uid = NoUid \/ uid = "" THEN Uuid4(n) ELSE uid

DrawsUuid(uid) == uid = NoUid \/ uid = ""

\* str(x) of a uid
StrOfUid(uid) == IF uid = NoUid THEN "None" ELSE uid

\* Event(...) as MainWindow._save_dialog_event builds it from the dialog's
\* payload: id 0 until the DataManager sets it, n uuid4() values drawn so far
NewEvent(title, start, rule, prio, enabled, type, adv_val, adv_unit, abs, n) ==
    [id |-> 0,
     uid |-> InitUid(NoUid, n + 1),
     title |-> title,
     start_time |-> start,
     end_time |-> start + SecPerHour,
     description |-> "",
     priority |-> prio,
     repeat_rule |-> rule,
     reminder_enabled |-> enabled,
     reminder_type |-> type,
     advance_value |-> adv_val,
     advance_unit |-> adv_unit,
     absolute_time |-> abs,
     finished |-> FALSE,
     last_reminded_time |-> NoneVal]

WithId(e, i) == [e EXCEPT !.id = i]

-----------------------------------------------------------------------------
(* Event.to_ical_component / Event.from_ical_component *)

\* day_map of to_ical_component
DayMap(wd) == <<"MO", "TU", "WE", "TH", "FR", "SA", "SU">>[wd + 1]

\* freq_map of to_ical_component; "" when the rule has no frequency
FreqMap(rule) ==
    CASE rule = "daily" -> "DAILY"
      [] rule = "weekly" -> "WEEKLY"
      [] rule = "monthly" -> "MONTHLY"
      [] rule = "yearly" -> "YEARLY"
      [] OTHER -> ""

NoRrule == [freq |-> "", byday |-> ""]

RruleOf(e) ==
    LET freq == FreqMap(e.repeat_rule) IN
    IF freq = "" THEN NoRrule
    ELSE [freq |-> freq,
          byday |-> IF freq = "WEEKLY" THEN DayMap(Weekday(DateOf(e.start_time))) ELSE ""]

Flag(b) == IF b THEN "TRUE" ELSE "FALSE"

\* The VEVENT component: vDatetime keeps whole seconds, the X- timestamps are
\* written by _format_dt and left out when None, the id and the priority are
\* not written at all. vText(None) is the text "None".
ToIcalComponent(e) ==
    [uid |-> StrOfUid(e.uid),
     summary |-> e.title,
     description |-> e.description,
     dtstart |-> e.start_time,
     dtend |-> e.end_time,
     rrule |-> RruleOf(e),
     x_finished |-> Flag(e.finished),
     x_reminder_enabled |-> Flag(e.reminder_enabled),
     x_reminder_type |-> e.reminder_type,
     x_reminder_adv_val |-> e.advance_value,
     x_reminder_adv_unit |-> e.advance_unit,
     x_reminder_abs_time |-> FormatDt(e.absolute_time),
     x_last_reminded |-> FormatDt(e.last_reminded_time)]

\* from_ical_component returns None when the component has no DTSTART or no
\* DTEND (comp.get(...) is None and .dt raises inside the try)
FromIcalOk(comp) == comp.dtstart # NoneVal /\ comp.dtend # NoneVal

RuleOfFreq(freq) ==
    CASE freq = "DAILY" -> "daily"
      [] freq = "WEEKLY" -> "weekly"
      [] freq = "MONTHLY" -> "monthly"
      [] freq = "YEARLY" -> "yearly"
      [] OTHER -> "none"

\* n: the uuid4() values drawn so far
FromIcalComponent(comp, internal_id, n) ==
    [id |-> internal_id,
     uid |-> InitUid(comp.uid, n + 1),
     title |-> comp.summary,
     start_time |-> comp.dtstart,
     end_time |-> comp.dtend,
     description |-> comp.description,
     priority |-> "medium",
     repeat_rule |-> RuleOfFreq(comp.rrule.freq),
     reminder_enabled |-> (comp.x_reminder_enabled = "TRUE"),
     reminder_type |-> comp.x_reminder_type,
     advance_value |-> comp.x_reminder_adv_val,
     advance_unit |-> comp.x_reminder_adv_unit,
     absolute_time |-> ParseDt(comp.x_reminder_abs_time),
     finished |-> (comp.x_finished = "TRUE"),
     last_reminded_time |-> ParseDt(comp.x_last_reminded)]

-----------------------------------------------------------------------------
(* DataManager._event_to_tuple / DataManager._row_to_event *)

NullUid == "<NULL>"

\* the parameters of INSERT and UPDATE; a None uid is bound as NULL
EventToTuple(e) ==
    [uid |-> IF e.uid = NoUid THEN NullUid ELSE e.uid,
     title |-> e.title,
     start_time |-> FormatDt(e.start_time),
     end_time |-> FormatDt(e.end_time),
     description |-> e.description,
     priority |-> e.priority,
     repeat_rule |-> e.repeat_rule,
     reminder_enabled |-> IF e.reminder_enabled THEN 1 ELSE 0,
     reminder_type |-> e.reminder_type,
     advance_value |-> e.advance_value,
     advance_unit |-> e.advance_unit,
     absolute_time |-> FormatDt(e.absolute_time),
     finished |-> IF e.finished THEN 1 ELSE 0,
     last_reminded_time |-> FormatDt(e.last_reminded_time)]

\* a row of table events: the id column and the tuple's columns
RowOf(id, t) == [id |-> id, cols |-> t]

RowToEvent(row, n) ==
    [id |-> row.id,
     uid |-> InitUid(IF row.cols.uid = NullUid THEN NoUid ELSE row.cols.uid, n + 1),
     title |-> row.cols.title,
     start_time |-> ParseDt(row.cols.start_time),
     end_time |-> ParseDt(row.cols.end_time),
     description |-> row.cols.description,
     priority |-> row.cols.priority,
     repeat_rule |-> row.cols.repeat_rule,
     reminder_enabled |-> (row.cols.reminder_enabled # 0),
     reminder_type |-> row.cols.reminder_type,
     advance_value |-> row.cols.advance_value,
     advance_unit |-> row.cols.advance_unit,
     absolute_time |-> ParseDt(row.cols.absolute_time),
     finished |-> (row.cols.finished # 0),
     last_reminded_time |-> ParseDt(row.cols.last_reminded_time)]

-----------------------------------------------------------------------------
(* DataManager: the object as a record, and its methods as operators on it *)

DM == [storage_mode |-> storage_mode,
       events_cache |-> events_cache,
       ics_file |-> ics_file,
       db_rows |-> db_rows,
       db_seq |-> db_seq,
       next_event_id |-> next_event_id,
       uuid_next |-> uuid_next]

SetDM(S) ==
    /\ storage_mode' = S.storage_mode
    /\ events_cache' = S.events_cache
    /\ ics_file' = S.ics_file
    /\ db_rows' = S.db_rows
    /\ db_seq' = S.db_seq
    /\ next_event_id' = S.next_event_id
    /\ uuid_next' = S.uuid_next

Max(a, b) == IF a >= b THEN a ELSE b

RECURSIVE MaxOver(_, _, _)
MaxOver(seq, k, acc) ==
    IF k > Len(seq) THEN acc ELSE MaxOver(seq, k + 1, Max(acc, seq[k].id))

\* the ids of a list of events or rows
IdsOf(seq) == {seq[i].id : i \in 1..Len(seq)}

\* _save_events_to_ics: the whole file rewritten from the list given
RECURSIVE SaveEventsToIcs(_)
SaveEventsToIcs(events) ==
    IF events = <<>> THEN <<>>
    ELSE <<ToIcalComponent(Head(events))>> \o SaveEventsToIcs(Tail(events))

\* _load_events_from_ics: temp_id counts the components that convert
RECURSIVE LoadIcsFrom(_, _, _, _, _)
LoadIcsFrom(file, k, temp_id, acc, n) ==
    IF k > Len(file) THEN [events |-> acc, uuid_next |-> n]
    ELSE IF FromIcalOk(file[k])
         THEN LoadIcsFrom(file, k + 1, temp_id + 1,
                          Append(acc, FromIcalComponent(file[k], temp_id, n)),
                          IF DrawsUuid(file[k].uid) THEN n + 1 ELSE n)
         ELSE LoadIcsFrom(file, k + 1, temp_id, acc, n)

LoadEventsFromIcs(file, n) == LoadIcsFrom(file, 1, 1, <<>>, n)

\* _load_events_from_db: SELECT * FROM events, each row through _row_to_event
RECURSIVE LoadDbFrom(_, _, _, _)
LoadDbFrom(rows, k, acc, n) ==
    IF k > Len(rows) THEN [events |-> acc, uuid_next |-> n]
    ELSE LoadDbFrom(rows, k + 1, Append(acc, RowToEvent(rows[k], n)),
                    IF rows[k].cols.uid = NullUid THEN n + 1 ELSE n)

LoadEventsFromDb(rows, n) == LoadDbFrom(rows, 1, <<>>, n)

\* reload_events
ReloadEvents(S) ==
    LET r == IF S.storage_mode = "sqlite"
             THEN LoadEventsFromDb(S.db_rows, S.uuid_next)
             ELSE LoadEventsFromIcs(S.ics_file, S.uuid_next)
    IN [S EXCEPT !.events_cache = r.events, !.uuid_next = r.uuid_next]

\* _recalculate_next_id
RecalculateNextId(S) ==
    [S EXCEPT !.next_event_id =
        IF S.storage_mode = "sqlite" THEN MaxOver(S.db_rows, 1, 0) + 1
        ELSE MaxOver(S.events_cache, 1, 0) + 1]

\* _insert_event_db: INTEGER PRIMARY KEY AUTOINCREMENT hands out one more than
\* the largest rowid the table has ever held (sqlite_sequence)
InsertEventDb(S, e) ==
    LET new_id == Max(S.db_seq, MaxOver(S.db_rows, 1, 0)) + 1 IN
    [S EXCEPT !.db_rows = Append(@, RowOf(new_id, EventToTuple(e))),
              !.db_seq = new_id]

\* _update_event_db: UPDATE events SET ... WHERE id=?
UpdateEventDb(S, e) ==
    [S EXCEPT !.db_rows =
        [k \in 1..Len(@) |-> IF @[k].id = e.id THEN RowOf(e.id, EventToTuple(e)) ELSE @[k]]]

RECURSIVE WithoutId(_, _)
WithoutId(seq, id) ==
    IF seq = <<>> THEN <<>>
    ELSE IF Head(seq).id = id THEN WithoutId(Tail(seq), id)
    ELSE <<Head(seq)>> \o WithoutId(Tail(seq), id)

\* _delete_event_db: DELETE FROM events WHERE id=?
DeleteEventDb(S, event_id) == [S EXCEPT !.db_rows = WithoutId(@, event_id)]

\* add_event: the DataManager after the call; the event added is the last of
\* events_cache and its id the value returned
AddEvent(S, e, auto_save) ==
    IF S.storage_mode = "sqlite"
    THEN LET T == InsertEventDb(S, e) IN
         [T EXCEPT !.events_cache = Append(@, WithId(e, T.db_seq))]
    ELSE LET T == [S EXCEPT !.events_cache = Append(@, WithId(e, S.next_event_id)),
                            !.next_event_id = @ + 1]
         IN IF auto_save THEN [T EXCEPT !.ics_file = SaveEventsToIcs(T.events_cache)]
            ELSE T

AddedId(S) == S.events_cache[Len(S.events_cache)].id

\* the index of the first event of the list with this id, 0 when there is none
\* (the loops of update_event and get_event)
FirstWithId(events, id) ==
    IF \E i \in 1..Len(events) : events[i].id = id
    THEN CHOOSE i \in 1..Len(events) :
            /\ events[i].id = id
            /\ \A j \in 1..(i - 1) : events[j].id # id
    ELSE 0

\* update_event with the rewrite of the events file forgotten
MutUpdateEventCacheOnly(S, e) ==
    LET i == FirstWithId(S.events_cache, e.id)
        T == IF i # 0 THEN [S EXCEPT !.events_cache[i] = e] ELSE S
    IN IF S.storage_mode = "sqlite"
       THEN [dm |-> UpdateEventDb(T, e), ret |-> TRUE]
       ELSE [dm |-> T, ret |-> i # 0]

\* update_event: [dm, ret]
UpdateEvent(S, e) ==
    LET i == FirstWithId(S.events_cache, e.id)
        found == i # 0
        T == IF found THEN [S EXCEPT !.events_cache[i] = e] ELSE S
    IN IF S.storage_mode = "sqlite"
       THEN [dm |-> UpdateEventDb(T, e), ret |-> TRUE]
       ELSE IF found
            THEN [dm |-> [T EXCEPT !.ics_file = SaveEventsToIcs(T.events_cache)],
                  ret |-> TRUE]
            ELSE [dm |-> T, ret |-> FALSE]

\* delete_event: [dm, ret]
DeleteEvent(S, event_id) ==
    LET T == [S EXCEPT !.events_cache = WithoutId(@, event_id)] IN
    IF S.storage_mode = "sqlite"
    THEN [dm |-> DeleteEventDb(T, event_id), ret |-> TRUE]
    ELSE [dm |-> [T EXCEPT !.ics_file = SaveEventsToIcs(T.events_cache)], ret |-> TRUE]

\* mark_event_as_finished: [dm, ret]
MarkEventAsFinished(S, event_id, is_finished) ==
    LET i == FirstWithId(S.events_cache, event_id) IN
    IF i # 0
    THEN UpdateEvent(S, [S.events_cache[i] EXCEPT !.finished = is_finished])
    ELSE [dm |-> S, ret |-> FALSE]

RECURSIVE InsertAllDb(_, _, _)
InsertAllDb(S, events, k) ==
    IF k > Len(events) THEN S ELSE InsertAllDb(InsertEventDb(S, events[k]), events, k + 1)

\* switch_storage_mode: migrate, set the mode, reload; _next_event_id is not
\* recalculated (only __init__ does that)
SwitchStorageMode(S, new_mode) ==
    IF new_mode = S.storage_mode THEN S
    ELSE LET migrated ==
                IF new_mode = "sqlite"
                THEN InsertAllDb([S EXCEPT !.db_rows = <<>>], S.events_cache, 1)
                ELSE [S EXCEPT !.ics_file = SaveEventsToIcs(S.events_cache)]
         IN ReloadEvents([migrated EXCEPT !.storage_mode = new_mode])

\* import_from_ics: the loop over the components of the file
RECURSIVE ImportLoop(_, _, _, _, _)
ImportLoop(S, file, k, existing_uids, count) ==
    IF k > Len(file) THEN [dm |-> S, count |-> count]
    ELSE IF ~FromIcalOk(file[k]) THEN ImportLoop(S, file, k + 1, existing_uids, count)
    ELSE LET e == FromIcalComponent(file[k], 0, S.uuid_next)
             S1 == IF DrawsUuid(file[k].uid) THEN [S EXCEPT !.uuid_next = @ + 1] ELSE S
         IN IF e.uid \in existing_uids
            THEN ImportLoop(S1, file, k + 1, existing_uids, count)
            ELSE ImportLoop(AddEvent(S1, e, FALSE), file, k + 1,
                            existing_uids \cup {e.uid}, count + 1)

\* import_from_ics with existing_uids started empty instead of from the cache
MutImportFromIcsIgnoresStore(S, file) ==
    IF file = <<>> THEN [dm |-> S, count |-> 0]
    ELSE LET r == ImportLoop(S, file, 1, {}, 0)
         IN IF S.storage_mode = "ics"
            THEN [r EXCEPT !.dm.ics_file = SaveEventsToIcs(r.dm.events_cache)]
            ELSE r

\* import_from_ics: [dm, count]
ImportFromIcs(S, file) ==
    IF file = <<>> THEN [dm |-> S, count |-> 0]
    ELSE LET r == ImportLoop(S, file, 1,
                             {S.events_cache[i].uid : i \in 1..Len(S.events_cache)}, 0)
         IN IF S.storage_mode = "ics"
            THEN [r EXCEPT !.dm.ics_file = SaveEventsToIcs(r.dm.events_cache)]
            ELSE r

-----------------------------------------------------------------------------
(* ReminderManager.snooze *)

\* the shadow event of a recurring event: deepcopy, then the assignments
SnoozeShadow(e, minutes, t) ==
    [e EXCEPT !.id = 0,
              !.uid = NoUid,
              !.title = e.title \o " (snoozed)",
              !.repeat_rule = "none",
              !.reminder_enabled = TRUE,
              !.reminder_type = "absolute",
              !.absolute_time = ReplaceSecond0(t) + minutes * SecPerMin]

\* snooze as it was before the recurring branch was added: every event is
\* changed in place
MutSnoozeAlwaysInPlace(S, event_id, minutes, t) ==
    LET i == FirstWithId(S.events_cache, event_id) IN
    IF i = 0 THEN S
    ELSE UpdateEvent(S, [S.events_cache[i] EXCEPT
                            !.reminder_enabled = TRUE,
                            !.reminder_type = "absolute",
                            !.absolute_time = ReplaceSecond0(t) + minutes * SecPerMin,
                            !.last_reminded_time = NoneVal]).dm

\* snooze at wall-clock time t: the DataManager after the call
Snooze(S, event_id, minutes, t) ==
    LET i == FirstWithId(S.events_cache, event_id) IN
    IF i = 0 THEN S
    ELSE LET e == S.events_cache[i] IN
         IF e.repeat_rule # "none"
         THEN LET S1 == AddEvent(S, SnoozeShadow(e, minutes, t), TRUE)
              IN UpdateEvent(S1, [e EXCEPT !.last_reminded_time = t]).dm
         ELSE UpdateEvent(S, [e EXCEPT !.reminder_enabled = TRUE,
                                       !.reminder_type = "absolute",
                                       !.absolute_time = ReplaceSecond0(t) + minutes * SecPerMin,
                                       !.last_reminded_time = NoneVal]).dm


-----------------------------------------------------------------------------
(* Event.to_dict / Event.from_dict *)

ToDict(e) ==
    [id |-> e.id,
     uid |-> e.uid,
     title |-> e.title,
     start_time |-> FormatDt(e.start_time),
     end_time |-> FormatDt(e.end_time),
     description |-> e.description,
     priority |-> e.priority,
     repeat_rule |-> e.repeat_rule,
     finished |-> e.finished,
     last_reminded_time |-> FormatDt(e.last_reminded_time),
     reminder |-> [enabled |-> e.reminder_enabled,
                   type |-> e.reminder_type,
                   advance_value |-> e.advance_value,
                   advance_unit |-> e.advance_unit,
                   absolute_time |-> FormatDt(e.absolute_time)]]

\* from_dict of a dict that to_dict wrote (it has no key "reminded"); n: the
\* uuid4() values drawn so far
FromDict(data, n) ==
    [id |-> data.id,
     uid |-> InitUid(data.uid, n + 1),
     title |-> data.title,
     start_time |-> ParseDt(data.start_time),
     end_time |-> ParseDt(data.end_time),
     description |-> data.description,
     priority |-> data.priority,
     repeat_rule |-> data.repeat_rule,
     reminder_enabled |-> data.reminder.enabled,
     reminder_type |-> data.reminder.type,
     advance_value |-> data.reminder.advance_value,
     advance_unit |-> data.reminder.advance_unit,
     absolute_time |-> ParseDt(data.reminder.absolute_time),
     finished |-> data.finished,
     last_reminded_time |-> ParseDt(data.last_reminded_time)]

-----------------------------------------------------------------------------
(* DataManager.get_events_between_dates: the occurrence expander *)

\* PRIORITY_MAP.get(priority, 1)
PriorityRank(priority) ==
    CASE priority = "high" -> 0
      [] priority = "medium" -> 1
      [] priority = "low" -> 2
      [] OTHER -> 1

\* _is_occurring_on with a monthly rule that rolls over: in a month shorter
\* than the origin's day-of-month, the last day of the month qualifies
MutIsOccurringOnMonthlyRollover(event, target, start) ==
    IF target < start THEN FALSE
    ELSE CASE event.repeat_rule = "none" -> target = start
           [] event.repeat_rule = "daily" -> TRUE
           [] event.repeat_rule = "weekly" -> Weekday(target) = Weekday(start)
           [] event.repeat_rule = "monthly" ->
                 \/ CivilOf(target).day = CivilOf(start).day
                 \/ /\ CivilOf(target).day < CivilOf(start).day
                    /\ CivilOf(target + 1).day = 1
           [] event.repeat_rule = "yearly" ->
                 /\ CivilOf(target).month = CivilOf(start).month
                 /\ CivilOf(target).day = CivilOf(start).day
           [] OTHER -> FALSE

\* _is_occurring_on
IsOccurringOn(event, target, start) ==
    IF target < start THEN FALSE
    ELSE CASE event.repeat_rule = "none" -> target = start
           [] event.repeat_rule = "daily" -> TRUE
           [] event.repeat_rule = "weekly" -> Weekday(target) = Weekday(start)
           [] event.repeat_rule = "monthly" -> CivilOf(target).day = CivilOf(start).day
           [] event.repeat_rule = "yearly" ->
                 /\ CivilOf(target).month = CivilOf(start).month
                 /\ CivilOf(target).day = CivilOf(start).day
           [] OTHER -> FALSE

\* the WHERE clause with the condition on start_time left out
MutSelectedWithoutStartTime(row, start_date, end_date) ==
    LET s_str == FormatDt(At(start_date, 0, 0, 0))
        e_str == FormatDt(At(end_date, 23, 59, 0))
    IN \/ row.cols.repeat_rule # "none"
       \/ /\ row.cols.reminder_type = "absolute"
          /\ row.cols.absolute_time # NoneVal
          /\ row.cols.absolute_time >= s_str
          /\ row.cols.absolute_time <= e_str

\* the WHERE clause of the SELECT; s_str and e_str are the texts
\* <start_date>T00:00 and <end_date>T23:59, a NULL column compares as false
SelectedForRange(row, start_date, end_date) ==
    LET s_str == FormatDt(At(start_date, 0, 0, 0))
        e_str == FormatDt(At(end_date, 23, 59, 0))
    IN \/ row.cols.repeat_rule # "none"
       \/ row.cols.start_time >= s_str /\ row.cols.start_time <= e_str
       \/ /\ row.cols.reminder_type = "absolute"
          /\ row.cols.absolute_time # NoneVal
          /\ row.cols.absolute_time >= s_str
          /\ row.cols.absolute_time <= e_str

\* rows = c.fetchall()
RECURSIVE FetchAll(_, _, _)
FetchAll(rows, start_date, end_date) ==
    IF rows = <<>> THEN <<>>
    ELSE (IF SelectedForRange(Head(rows), start_date, end_date) THEN <<Head(rows)>> ELSE <<>>)
         \o FetchAll(Tail(rows), start_date, end_date)

\* source_events: the selected rows through _row_to_event, or the cache
SourceEvents(S, start_date, end_date) ==
    IF S.storage_mode = "sqlite"
    THEN LoadEventsFromDb(FetchAll(S.db_rows, start_date, end_date), S.uuid_next).events
    ELSE S.events_cache

\* result[date_key].append(x); a key outside the range is not in result
AppendTo(result, d, x) ==
    IF d \in DOMAIN result THEN [result EXCEPT ![d] = Append(@, x)] ELSE result

\* virtual_e: from_dict(to_dict(e)), the id set again, both times shifted
VirtualEvent(e, days_diff, n) ==
    LET virtual_e == FromDict(ToDict(e), n) IN
    [virtual_e EXCEPT !.id = e.id,
                      !.start_time = @ + days_diff * SecPerDay,
                      !.end_time = @ + days_diff * SecPerDay]

\* the while loop over check_date for one recurring event: every date from
\* check_date to end_date is visited once, in order, and gets at most one
\* entry, so the loop is written as one pass over the buckets
ExpandFrom(result, e, check_date, end_date, n) ==
    LET e_start_date == DateOf(e.start_time) IN
    [d \in DOMAIN result |->
        IF check_date <= d /\ d <= end_date /\ IsOccurringOn(e, d, e_start_date)
        THEN Append(result[d], IF d # e_start_date
                               THEN VirtualEvent(e, d - e_start_date, n)
                               ELSE e)
        ELSE result[d]]

\* the body of the loop over source_events for one event. An Event compares
\* by identity, and each object of source_events is met once, so that
\* "e not in result[rem_date_key]" holds whenever it is evaluated.
PlaceEvent(result, e, start_date, end_date, n) ==
    LET e_start_date == DateOf(e.start_time)
        is_in_range == start_date <= e_start_date /\ e_start_date <= end_date
        is_rem_in_range ==
            /\ e.reminder_type = "absolute"
            /\ e.absolute_time # NoneVal
            /\ start_date <= DateOf(e.absolute_time)
            /\ DateOf(e.absolute_time) <= end_date
    IN IF e.repeat_rule = "none"
       THEN LET r1 == IF is_in_range THEN AppendTo(result, e_start_date, e) ELSE result
            IN IF is_rem_in_range /\ ~is_in_range
               THEN AppendTo(r1, DateOf(e.absolute_time), e)
               ELSE r1
       ELSE IF e_start_date > end_date THEN result
       ELSE ExpandFrom(result, e, Max(start_date, e_start_date), end_date, n)

RECURSIVE PlaceAll(_, _, _, _, _, _)
PlaceAll(result, source_events, k, start_date, end_date, n) ==
    IF k > Len(source_events) THEN result
    ELSE PlaceAll(PlaceEvent(result, source_events[k], start_date, end_date, n),
                  source_events, k + 1, start_date, end_date, n)

\* the sort key of a bucket
SortKeyLeq(x, y) ==
    \/ PriorityRank(x.priority) < PriorityRank(y.priority)
    \/ /\ PriorityRank(x.priority) = PriorityRank(y.priority)
       /\ x.start_time <= y.start_time

\* list.sort(key=...) is stable: x goes behind everything that is not larger
RECURSIVE InsertSorted(_, _)
InsertSorted(sorted, x) ==
    IF sorted = <<>> THEN <<x>>
    ELSE IF SortKeyLeq(Head(sorted), x) THEN <<Head(sorted)>> \o InsertSorted(Tail(sorted), x)
    ELSE <<x>> \o sorted

RECURSIVE SortBucket(_, _, _)
SortBucket(bucket, k, acc) ==
    IF k > Len(bucket) THEN acc ELSE SortBucket(bucket, k + 1, InsertSorted(acc, bucket[k]))

\* get_events_between_dates: the buckets by date
GetEventsBetweenDates(S, start_date, end_date) ==
    LET empty == [d \in start_date..end_date |-> <<>>]
        filled == PlaceAll(empty, SourceEvents(S, start_date, end_date), 1,
                           start_date, end_date, S.uuid_next)
    IN [d \in start_date..end_date |-> SortBucket(filled[d], 1, <<>>)]

\* list_events_by_date
ListEventsByDate(S, d) == GetEventsBetweenDates(S, d, d)[d]

-----------------------------------------------------------------------------
(* ReminderManager.check_reminders, MainWindow._on_reminder *)

LookAheadDays == 30

\* timedelta(minutes=val), timedelta(hours=val), timedelta(days=val)
AdvanceDelta(e) ==
    LET val == IF e.advance_value = 0 THEN 30 ELSE e.advance_value IN
    CASE e.advance_unit = "hours" -> val * SecPerHour
      [] e.advance_unit = "days" -> val * SecPerDay
      [] OTHER -> val * SecPerMin

\* _calc_trigger_dt: NoneVal for None
CalcTriggerDt(e) ==
    IF ~e.reminder_enabled THEN NoneVal
    ELSE IF e.reminder_type = "absolute" THEN e.absolute_time
    ELSE e.start_time - AdvanceDelta(e)

\* should_remind without the comparison with last_reminded_time
MutShouldRemindIgnoresStamp(e, tick_now) ==
    /\ ~e.finished
    /\ CalcTriggerDt(e) # NoneVal
    /\ tick_now >= ReplaceSecond0(CalcTriggerDt(e))

\* the body of the loop of check_reminders up to should_remind, for the
\* occurrence e and the tick's now (already without seconds)
ShouldRemind(e, tick_now) ==
    /\ ~e.finished
    /\ CalcTriggerDt(e) # NoneVal
    /\ LET trig_dt == ReplaceSecond0(CalcTriggerDt(e)) IN
       /\ tick_now >= trig_dt
       /\ (e.last_reminded_time = NoneVal \/ e.last_reminded_time < trig_dt)

\* an entry of events_dict is the cache's own object when the events come
\* from the cache and the entry is no virtual copy: what the tick reads of it
\* later is what the object holds then
IsCacheObject(S, x, d) ==
    /\ S.storage_mode = "ics"
    /\ \/ x.repeat_rule = "none"
       \/ LET i == FirstWithId(S.events_cache, x.id) IN
          i # 0 /\ DateOf(S.events_cache[i].start_time) = d

\* events_dict.items() in the order of the keys, as one list of entries. An
\* entry that is a copy (virtual, or read from the table) never changes: if
\* the loop would pass it over at the tick's now, it passes it over whenever
\* it gets there, and the entry is left out of the list.
RECURSIVE EntriesFrom(_, _, _, _, _)
EntriesFrom(S, result, d, end_date, tick_now) ==
    IF d > end_date THEN <<>>
    ELSE LET bucket == result[d]
             kept == {k \in 1..Len(bucket) :
                         IsCacheObject(S, bucket[k], d) \/ ShouldRemind(bucket[k], tick_now)}
         IN [j \in 1..Cardinality(kept) |->
                LET k == CHOOSE i \in kept : Cardinality({h \in kept : h < i}) = j - 1
                IN [date |-> d, e |-> bucket[k], shared |-> IsCacheObject(S, bucket[k], d)]]
            \o EntriesFrom(S, result, d + 1, end_date, tick_now)

Entries(S, today_date, tick_now) ==
    EntriesFrom(S, GetEventsBetweenDates(S, today_date, today_date + LookAheadDays),
                today_date, today_date + LookAheadDays, tick_now)

\* the object an entry refers to, as it is now
Resolved(S, en) ==
    LET i == FirstWithId(S.events_cache, en.e.id) IN
    IF en.shared /\ i # 0 THEN S.events_cache[i] ELSE en.e

\* the first entry of todo that the loop emits: should_remind and
\* dm.get_event(e.id) is not None; 0 when the loop runs to its end
DueIndex(S, todo, tick_now) ==
    LET due == {k \in 1..Len(todo) :
                   /\ ShouldRemind(Resolved(S, todo[k]), tick_now)
                   /\ FirstWithId(S.events_cache, todo[k].e.id) # 0}
    IN IF due = {} THEN 0 ELSE CHOOSE k \in due : \A j \in due : k <= j

TickFrame(tick_now, todo) ==
    [kind |-> "tick", now |-> tick_now, todo |-> todo, id |-> 0, occ |-> 0]

DialogFrame(id, occ) ==
    [kind |-> "dialog", now |-> 0, todo |-> <<>>, id |-> id, occ |-> occ]

\* the loop of check_reminders runs on over todo until reminderTriggered.emit
\* enters _on_reminder and reminder_window.exec_() (the tick waits under its
\* dialog) or until its end (the tick returns to base, the stack under it)
ContinueTick(S, base, todo, tick_now) ==
    LET k == DueIndex(S, todo, tick_now) IN
    IF k = 0 THEN [stack |-> base, key |-> <<>>]
    ELSE [stack |-> base \o <<TickFrame(tick_now, SubSeq(todo, k + 1, Len(todo))),
                              DialogFrame(todo[k].e.id, todo[k].date)>>,
          key |-> <<todo[k].e.id, todo[k].date>>]

\* history: one more emission for the occurrence key = <<id, date>>
Emit(em, key) ==
    IF key = <<>> THEN em
    ELSE IF key \in DOMAIN em THEN [em EXCEPT ![key] = @ + 1]
    ELSE em @@ (key :> 1)

\* _mark_event_as_reminded at wall-clock time t
MarkEventAsReminded(S, event_id, t) ==
    LET i == FirstWithId(S.events_cache, event_id) IN
    IF i # 0 THEN UpdateEvent(S, [S.events_cache[i] EXCEPT !.last_reminded_time = t]).dm
    ELSE S

-----------------------------------------------------------------------------
(* The environment: the clock, the dialog's payloads, the files to import *)

\* the instants the clock is read at: two around 09:00 on each day
InstantsOf(days) == {At(d, 8, 59, 50) : d \in days} \cup {At(d, 9, 0, 5) : d \in days}

Instants == InstantsOf(0..MaxDay)

Modes == {"ics", "sqlite"}

\* what the event dialog is filled with: a daily event with a reminder 30
\* minutes ahead (the dialog always sends an absolute_time as well)
Payloads == {"Standup"}

EventOfPayload(p, n) ==
    NewEvent(p, At(0, 9, 30, 0), "daily", "high", TRUE, "advance", 30, "minutes",
             At(0, 9, 30, 0), n)

\* a VEVENT of a foreign calendar file
Component(uid, summary, start) ==
    [uid |-> uid, summary |-> summary, description |-> "", dtstart |-> start,
     dtend |-> IF start = NoneVal THEN NoneVal ELSE start + SecPerHour,
     rrule |-> NoRrule, x_finished |-> "None", x_reminder_enabled |-> "None",
     x_reminder_type |-> "advance", x_reminder_adv_val |-> 30,
     x_reminder_adv_unit |-> "minutes", x_reminder_abs_time |-> NoneVal,
     x_last_reminded |-> NoneVal]

\* the files offered to import: one with a uid twice (with different content),
\* one with a component without DTSTART and a component without UID
ImportFile(f) ==
    IF f = "twice"
    THEN <<Component("ext-a", "A", At(1, 12, 0, 0)),
           Component("ext-a", "A again", At(2, 12, 0, 0))>>
    ELSE <<Component("ext-c", "C", NoneVal), Component("", "anonymous", At(1, 14, 0, 0))>>

ImportFiles == {"twice", "broken"}

SnoozeMinutes == {5}

\* the history of the last call: what was called, with what, and what it returned
Called(op, arg, ret) == [op |-> op, arg |-> arg, ret |-> ret]

NoCall == Called("init", 0, 0)

\* the largest id either backend has handed out
IdsUsed(S) == Max(Max(S.db_seq, S.next_event_id - 1),
                  Max(MaxOver(S.events_cache, 1, 0), MaxOver(S.db_rows, 1, 0)))

Bounded(S) == Len(S.events_cache) <= MaxEvents /\ IdsUsed(S) <= MaxId

SchedulerIdle ==
    /\ current_date = DateOf(now) /\ snoozed_ids = {} /\ stack = <<>>
    /\ emitted = <<>> /\ date_changed = 0 /\ answer = 0 /\ deferred = <<>>

SchedulerUnchanged ==
    UNCHANGED <<current_date, snoozed_ids, stack, emitted, date_changed, answer, deferred>>

\* one more call of the process lifetime
OneCall == calls < MaxCalls /\ calls' = calls + 1

-----------------------------------------------------------------------------
(* The store: DataManager.__init__ and the calls the windows make *)

\* DataManager.__init__ over the files a previous run left with the events
\* stored (each had drawn its uuid4)
InitDM(mode, stored) ==
    LET blank == [storage_mode |-> mode, events_cache |-> <<>>, ics_file |-> <<>>,
                  db_rows |-> <<>>, db_seq |-> 0, next_event_id |-> 0,
                  uuid_next |-> Len(stored)]
        disk == IF mode = "sqlite" THEN InsertAllDb(blank, stored, 1)
                ELSE [blank EXCEPT !.ics_file = SaveEventsToIcs(stored)]
    IN RecalculateNextId(ReloadEvents(disk))

InitWith(S) ==
    /\ storage_mode = S.storage_mode
    /\ events_cache = S.events_cache
    /\ ics_file = S.ics_file
    /\ db_rows = S.db_rows
    /\ db_seq = S.db_seq
    /\ next_event_id = S.next_event_id
    /\ uuid_next = S.uuid_next

\* a first start in either mode: no events file, an empty table
Init ==
    /\ now = At(0, 8, 59, 50)
    /\ \E mode \in Modes : InitWith(InitDM(mode, <<>>))
    /\ SchedulerIdle
    /\ calls = 0
    /\ last = NoCall

\* time passes (the calls on the store are followed within one day)
ClockAdvance ==
    /\ \E t \in InstantsOf({0}) : t > now /\ now' = t
    /\ UNCHANGED <<storage_mode, events_cache, ics_file, db_rows, db_seq, next_event_id,
                   uuid_next, calls, last>>
    /\ SchedulerUnchanged

\* MainWindow._save_dialog_event: Event(...) and add_event
AddCall(p) ==
    LET S == AddEvent([DM EXCEPT !.uuid_next = @ + 1], EventOfPayload(p, uuid_next), TRUE)
    IN /\ Bounded(S)
       /\ SetDM(S)
       /\ last' = Called("add", p, AddedId(S))
       /\ OneCall
       /\ UNCHANGED now
       /\ SchedulerUnchanged

DoAddEvent == \E p \in Payloads : AddCall(p)

\* the events a caller may hand to update_event: a stored event, or an event
\* carrying an id that no stored event has
UpdateArgs ==
    {events_cache[i] : i \in 1..Len(events_cache)} \cup
    {WithId(EventOfPayload("Stray", 0), id) : id \in (1..MaxId) \ IdsOf(events_cache)}

UpdateCall(e) ==
    LET r == UpdateEvent(DM, e)
    IN /\ SetDM(r.dm)
       /\ last' = Called("update", e.id, r.ret)
       /\ OneCall
       /\ UNCHANGED now
       /\ SchedulerUnchanged

DoUpdateEvent == \E e \in UpdateArgs : UpdateCall(e)

\* MainWindow._delete_event: delete_event
DeleteCall(id) ==
    LET r == DeleteEvent(DM, id)
    IN /\ SetDM(r.dm)
       /\ last' = Called("delete", id, r.ret)
       /\ OneCall
       /\ UNCHANGED now
       /\ SchedulerUnchanged

DoDeleteEvent == \E id \in 1..MaxId : DeleteCall(id)

\* SettingsDialog: switch_storage_mode
SwitchCall(m) ==
    LET S == SwitchStorageMode(DM, m)
    IN /\ Bounded(S)
       /\ SetDM(S)
       /\ last' = Called("switch_mode", m, TRUE)
       /\ OneCall
       /\ UNCHANGED now
       /\ SchedulerUnchanged

DoSwitchStorageMode == \E m \in Modes : SwitchCall(m)

\* SettingsDialog: import_from_ics
ImportCall(f) ==
    LET r == ImportFromIcs(DM, ImportFile(f))
    IN /\ Bounded(r.dm)
       /\ SetDM(r.dm)
       /\ last' = Called("import", f, r.count)
       /\ OneCall
       /\ UNCHANGED now
       /\ SchedulerUnchanged

DoImportFromIcs == \E f \in ImportFiles : ImportCall(f)

\* ReminderManager.snooze
SnoozeCall(id, m) ==
    LET S == Snooze(DM, id, m, now)
    IN /\ Bounded(S)
       /\ SetDM(S)
       /\ last' = Called("snooze", id, m)
       /\ OneCall
       /\ UNCHANGED now
       /\ SchedulerUnchanged

DoSnooze == \E id \in 1..MaxId, m \in SnoozeMinutes : SnoozeCall(id, m)

Next ==
    \/ ClockAdvance
    \/ DoAddEvent
    \/ DoUpdateEvent
    \/ DoDeleteEvent
    \/ DoSwitchStorageMode
    \/ DoImportFromIcs
    \/ DoSnooze

Spec == Init /\ [][Next]_vars

-----------------------------------------------------------------------------
(* The occurrence expander over a store that earlier runs have filled *)

MaxQueryStart == 14      \* a queried range starts on one of the days 0 .. MaxQueryStart

\* the lengths in days of the ranges queried: a day (list_events_by_date), a
\* week, the four weeks of the calendar grid
RangeLengths == {1, 7, 28}

StoredNames == {"Dentist", "Flight", "Standup", "Review", "Sync"}

\* the events earlier runs have stored; n: the uuid4() values drawn before.
\*   Dentist  2025-01-10 10:00, once, reminder 30 minutes ahead
\*   Flight   2025-01-17 10:00, once, reminder at 2025-01-15 20:00
\*   Standup  2025-01-06 09:00 (a Monday), weekly, reminder 10 minutes ahead
\*   Review   2025-01-13 09:00 (a Monday), weekly, no reminder
\*   Sync     2025-01-13 09:00:30 (a Monday), weekly, imported from a foreign file
StoredEvent(name, n) ==
    CASE name = "Dentist" ->
            NewEvent(name, At(9, 10, 0, 0), "none", "low", TRUE, "advance", 30, "minutes",
                     At(9, 10, 0, 0), n)
      [] name = "Flight" ->
            NewEvent(name, At(16, 10, 0, 0), "none", "high", TRUE, "absolute", 30, "minutes",
                     At(14, 20, 0, 0), n)
      [] name = "Standup" ->
            NewEvent(name, At(5, 9, 0, 0), "weekly", "medium", TRUE, "advance", 10, "minutes",
                     At(5, 9, 0, 0), n)
      [] name = "Review" ->
            NewEvent(name, At(12, 9, 0, 0), "weekly", "high", FALSE, "advance", 30, "minutes",
                     At(12, 9, 0, 0), n)
      [] OTHER ->
            FromIcalComponent([Component("ext-w", name, At(12, 9, 0, 30)) EXCEPT
                                  !.rrule = [freq |-> "WEEKLY", byday |-> "MO"]], 0, n)

\* the lists of at most MaxEvents different stored events
StoredLists ==
    LET picks == UNION {[1..k -> StoredNames] : k \in 0..MaxEvents}
    IN {[k \in 1..Len(q) |-> StoredEvent(q[k], k - 1)] :
            q \in {p \in picks : \A i, j \in 1..Len(p) : i # j => p[i] # p[j]}}

InitQuery ==
    /\ now = At(0, 8, 59, 50)
    /\ \E mode \in Modes, stored \in StoredLists : InitWith(InitDM(mode, stored))
    /\ SchedulerIdle
    /\ calls = 0
    /\ last = NoCall

\* CalendarView, DetailPanel, ReminderManager: get_events_between_dates
QueryCall(start_date, end_date) ==
    /\ answer' = GetEventsBetweenDates(DM, start_date, end_date)
    /\ last' = Called("query", <<start_date, end_date>>, TRUE)
    /\ UNCHANGED <<storage_mode, events_cache, ics_file, db_rows, db_seq, next_event_id,
                   uuid_next, now, current_date, snoozed_ids, stack, emitted,
                   date_changed, deferred, calls>>

DoQueryRange ==
    \E start_date \in 0..MaxQueryStart, len \in RangeLengths :
        QueryCall(start_date, start_date + len - 1)

NextQuery == DoQueryRange

SpecQuery == InitQuery /\ [][NextQuery]_vars

-----------------------------------------------------------------------------
(* The reminder scheduler: the timer, the notification dialogs, the clock *)

RemNames == {"Standup", "Call", "Backup", "Pill"}

\* the events earlier runs have stored, each with its first reminder due at
\* 09:00 on 2025-01-01
\*   Standup  from 2025-01-01 09:30, daily, reminder 30 minutes ahead
\*   Call     from 2025-01-01 10:00, daily, reminder 1 hour ahead
\*   Backup   from 2025-01-02 09:00, daily, reminder 1 day ahead
\*   Pill     2025-01-01 09:05, once, reminder at 09:00
RemEvent(name, n) ==
    CASE name = "Standup" -> EventOfPayload(name, n)
      [] name = "Call" ->
            NewEvent(name, At(0, 10, 0, 0), "daily", "medium", TRUE, "advance", 1, "hours",
                     At(0, 10, 0, 0), n)
      [] name = "Backup" ->
            NewEvent(name, At(1, 9, 0, 0), "daily", "low", TRUE, "advance", 1, "days",
                     At(1, 9, 0, 0), n)
      [] OTHER ->
            NewEvent(name, At(0, 9, 5, 0), "none", "high", TRUE, "absolute", 30, "minutes",
                     At(0, 9, 0, 0), n)

RemStoredLists ==
    LET picks == UNION {[1..k -> RemNames] : k \in 0..MaxEvents}
    IN {[k \in 1..Len(q) |-> RemEvent(q[k], k - 1)] :
            q \in {p \in picks : \A i, j \in 1..Len(p) : i # j => p[i] # p[j]}}

\* DataManager.__init__, ReminderManager.__init__
InitRem ==
    /\ now = At(0, 8, 59, 50)
    /\ \E mode \in Modes, stored \in RemStoredLists : InitWith(InitDM(mode, stored))
    /\ SchedulerIdle
    /\ calls = 0
    /\ last = NoCall

StoreUntouched ==
    UNCHANGED <<storage_mode, events_cache, ics_file, db_rows, db_seq, next_event_id,
                uuid_next>>

ClockAdvanceRem ==
    /\ \E t \in Instants : t > now /\ now' = t
    /\ StoreUntouched
    /\ UNCHANGED <<current_date, snoozed_ids, stack, emitted, date_changed, answer, deferred,
                   calls, last>>

\* check_reminders that emits dateChanged and leaves _current_date as it was
MutTickKeepsLastSeen ==
    LET tick_now == ReplaceSecond0(now)
        today_date == DateOf(tick_now)
        r == ContinueTick(DM, stack, Entries(DM, today_date, tick_now), tick_now)
    IN /\ Len(r.stack) <= MaxStack
       /\ current_date' = current_date
       /\ date_changed' = IF today_date # current_date THEN date_changed + 1
                          ELSE date_changed
       /\ stack' = r.stack
       /\ emitted' = Emit(emitted, r.key)
       /\ last' = Called("tick", tick_now, r.key # <<>>)
       /\ StoreUntouched
       /\ UNCHANGED <<now, snoozed_ids, answer, deferred, calls>>

\* QTimer.timeout: check_reminders, from the main event loop or from the
\* event loop of the notification dialog that is open
Tick ==
    LET tick_now == ReplaceSecond0(now)
        today_date == DateOf(tick_now)
        r == ContinueTick(DM, stack, Entries(DM, today_date, tick_now), tick_now)
    IN /\ Len(r.stack) <= MaxStack
       /\ current_date' = today_date
       /\ date_changed' = IF today_date # current_date THEN date_changed + 1
                          ELSE date_changed
       /\ stack' = r.stack
       /\ emitted' = Emit(emitted, r.key)
       /\ last' = Called("tick", tick_now, r.key # <<>>)
       /\ StoreUntouched
       /\ UNCHANGED <<now, snoozed_ids, answer, deferred, calls>>

\* the notification dialog on top is closed: exec_() returns in _on_reminder,
\* which marks the event unless it was snoozed, and returns into the loop of
\* the tick that emitted it
CloseDialog ==
    /\ stack # <<>>
    /\ LET top == stack[Len(stack)]
           below == stack[Len(stack) - 1]
           base == SubSeq(stack, 1, Len(stack) - 2)
           S == IF top.id \in snoozed_ids THEN DM ELSE MarkEventAsReminded(DM, top.id, now)
           r == ContinueTick(S, base, below.todo, below.now)
       IN /\ SetDM(S)
          /\ snoozed_ids' = snoozed_ids \ {top.id}
          /\ stack' = r.stack
          /\ emitted' = Emit(emitted, r.key)
          /\ last' = Called("close", top.id, r.key # <<>>)
    /\ UNCHANGED <<now, current_date, date_changed, answer, deferred, calls>>

\* history: the item a snooze of event_id defers (the event itself, or the
\* shadow that was added for a recurring event), when, by how many minutes,
\* and what had been emitted until then
Deferral(S, T, event_id, m, t, em) ==
    LET i == FirstWithId(S.events_cache, event_id) IN
    [origin |-> event_id,
     item |-> IF i # 0 /\ S.events_cache[i].repeat_rule # "none" THEN AddedId(T)
              ELSE event_id,
     at |-> t,
     minutes |-> m,
     before |-> em]

\* the snooze button of the notification dialog on top, a time chosen and
\* accepted: _show_snooze_dialog calls snooze and notes the id
SnoozeClick(m) ==
    /\ stack # <<>>
    /\ LET top == stack[Len(stack)]
           S == Snooze(DM, top.id, m, now)
       IN /\ Bounded(S)
          /\ SetDM(S)
          /\ snoozed_ids' = snoozed_ids \cup {top.id}
          /\ deferred' = Append(deferred, Deferral(DM, S, top.id, m, now, emitted))
          /\ last' = Called("snooze_click", top.id, m)
    /\ calls < MaxSnoozes
    /\ calls' = calls + 1
    /\ UNCHANGED <<now, current_date, stack, emitted, date_changed, answer>>

DoSnoozeClick == \E m \in SnoozeMinutes : SnoozeClick(m)

NextRem ==
    \/ ClockAdvanceRem
    \/ Tick
    \/ CloseDialog
    \/ DoSnoozeClick

SpecRem == InitRem /\ [][NextRem]_vars

-----------------------------------------------------------------------------
(* Claims about the store, checked under Spec *)

PersistedCount == IF storage_mode = "sqlite" THEN Len(db_rows) ELSE Len(ics_file)

StoreUnchanged == UNCHANGED <<events_cache, ics_file, db_rows>>

\* this step is the call named (the history is looked at first, so that a
\* call is only compared with a step that records the same operation)
UpdateStep(e) == last'.op = "update" /\ UpdateCall(e)
DeleteStep(id) == last'.op = "delete" /\ DeleteCall(id)
SnoozeStep(id, m) == last'.op = "snooze" /\ SnoozeCall(id, m)
ImportStep(f) == last'.op = "import" /\ ImportCall(f)

\* C1: after any sequence of add, delete, import, snooze and switch_mode, no
\* two events of the store share an id: add never hands out the id of an event
\* that is still stored. (The code breaks this: switch_storage_mode reloads
\* the file with the ids 1..n and leaves _next_event_id as it was.)
C1_NoTwoLiveEventsShareAnId ==
    \A i, j \in 1..Len(events_cache) :
        i # j => events_cache[i].id # events_cache[j].id

\* C2: update(event) with an id that no stored event has returns false and
\* leaves the store unchanged, in both storage modes. (The code returns True
\* in relational mode: _update_event_db always does.)
C2_UpdateOfAbsentIdReturnsFalse ==
    [][\A e \in UpdateArgs :
          (UpdateStep(e) /\ e.id \notin IdsOf(events_cache))
              => (last'.ret = FALSE /\ StoreUnchanged)]_vars

\* C3: delete(id) with an id that no stored event has returns false and changes
\* nothing in the store, in both modes; with an id that is stored, exactly the
\* event with that id is removed and every other event is unchanged. (The code
\* returns True for an absent id in both modes.)
C3_DeleteOfAbsentIdReturnsFalse ==
    [][\A id \in 1..MaxId :
          DeleteStep(id) =>
              IF id \notin IdsOf(events_cache)
              THEN last'.ret = FALSE /\ StoreUnchanged
              ELSE /\ Len(events_cache') = Len(events_cache) - 1
                   /\ events_cache' = WithoutId(events_cache, id)
                   /\ PersistedCount' = Len(events_cache')]_vars

PersistedReminder(i) ==
    IF storage_mode = "sqlite"
    THEN LET r == CHOOSE r \in {db_rows[k] : k \in 1..Len(db_rows)} : r.id = events_cache[i].id
         IN <<r.cols.reminder_enabled = 1, r.cols.reminder_type, r.cols.absolute_time,
              r.cols.last_reminded_time>>
    ELSE <<ics_file[i].x_reminder_enabled = "TRUE", ics_file[i].x_reminder_type,
           ics_file[i].x_reminder_abs_time, ics_file[i].x_last_reminded>>

UidsOf(events) == {events[i].uid : i \in 1..Len(events)}

\* the uids of the components of a file that convert to an event
FileUids(file) == {file[k].uid : k \in {k \in 1..Len(file) : FromIcalOk(file[k])}} \ {""}

\* C10: import_external inserts one event for each distinct uid of the file's
\* (convertible) components that is not in the store, and none for a uid that
\* is in the store or was seen earlier in the file; the count returned is the
\* number of events the store grew by (cache and active backend); no event
\* that was stored before is changed.
C10_ImportDeduplicatesByUid ==
    [][\A f \in ImportFiles :
          ImportStep(f) =>
              LET n == Len(events_cache)
                  added == {i \in (n + 1)..Len(events_cache') : TRUE}
              IN /\ Len(events_cache') >= n
                 /\ \A i \in 1..n : events_cache'[i] = events_cache[i]
                 /\ last'.ret = Len(events_cache') - n
                 /\ PersistedCount' = PersistedCount + last'.ret
                 /\ \A u \in FileUids(ImportFile(f)) :
                       Cardinality({i \in added : events_cache'[i].uid = u})
                           = IF u \in UidsOf(events_cache) THEN 0 ELSE 1]_vars

\* a state right after the import of a file that holds the same uid twice:
\* one event was inserted
C10_Witness ==
    /\ last.op = "import" /\ last.arg = "twice" /\ last.ret = 1
    /\ Cardinality({i \in 1..Len(events_cache) : events_cache[i].uid = "ext-a"}) = 1

-----------------------------------------------------------------------------
(* Claims about the occurrence expander, checked under SpecQuery *)

Queried == last.op = "query"
QueryStart == last.arg[1]
QueryEnd == last.arg[2]

\* where the answer lists an entry with the uid of e: <<date, position>>
PlacesOf(e) ==
    {pl \in (DOMAIN answer) \X (1..(2 * MaxEvents + 2)) :
        pl[2] <= Len(answer[pl[1]]) /\ answer[pl[1]][pl[2]].uid = e.uid}

\* C8: every non-recurring stored event whose start date D lies in the range
\* queried is listed exactly once in bucket D of the answer.
C8_SingleEventOnceInItsBucket ==
    Queried =>
        \A i \in 1..Len(events_cache) :
            LET e == events_cache[i]
                D == DateOf(e.start_time)
            IN (e.repeat_rule = "none" /\ QueryStart <= D /\ D <= QueryEnd) =>
                   Cardinality({k \in 1..Len(answer[D]) : answer[D][k] = e}) = 1

\* a range of a week or more in relational mode holds the start date of a
\* stored non-recurring event, whose bucket lists another event as well
C8_Witness ==
    /\ Queried
    /\ storage_mode = "sqlite"
    /\ QueryEnd > QueryStart
    /\ \E i \in 1..Len(events_cache) :
          LET e == events_cache[i]
              D == DateOf(e.start_time)
          IN /\ e.repeat_rule = "none"
             /\ QueryStart <= D /\ D <= QueryEnd
             /\ \E k \in 1..Len(answer[D]) : answer[D][k] = e

\* C9: for every weekly event anchored on a Monday, a query over any window of
\* 4 consecutive weeks returns exactly 4 occurrences of it, one in each week of
\* the window, all on Mondays, each starting at the origin start_time shifted
\* by 7*k days. (The code lists no occurrence before the origin date, and its
\* virtual copies start on the whole minute.)
C9_WeeklyFourOccurrencesInFourWeeks ==
    (Queried /\ QueryEnd = QueryStart + 27) =>
        \A i \in 1..Len(events_cache) :
            LET e == events_cache[i] IN
            (e.repeat_rule = "weekly" /\ Weekday(DateOf(e.start_time)) = 0) =>
                /\ Cardinality(PlacesOf(e)) = 4
                /\ \A w \in 0..3 :
                      Cardinality({pl \in PlacesOf(e) :
                                      /\ QueryStart + 7 * w <= pl[1]
                                      /\ pl[1] <= QueryStart + 7 * w + 6}) = 1
                /\ \A pl \in PlacesOf(e) :
                      /\ Weekday(pl[1]) = 0
                      /\ \E k \in -8..8 :
                            answer[pl[1]][pl[2]].start_time = e.start_time + 7 * k * SecPerDay

-----------------------------------------------------------------------------
(* Claims about the reminder scheduler, checked under SpecRem *)

\* the notification of occurrence key = <<id, date>> is open
DialogOpen(key) ==
    \E f \in 1..Len(stack) :
        stack[f].kind = "dialog" /\ stack[f].id = key[1] /\ stack[f].occ = key[2]

\* the reminder of the occurrence has fired and its notification is closed
FiredAndAcknowledged(key) == key \in DOMAIN emitted /\ ~DialogOpen(key)

RecurringWithAdvance(e) ==
    e.repeat_rule # "none" /\ e.reminder_enabled /\ e.reminder_type = "advance"

\* the trigger instant of the occurrence of e on date d
TriggerOf(e, d) ==
    ReplaceSecond0(e.start_time + (d - DateOf(e.start_time)) * SecPerDay - AdvanceDelta(e))

\* C4, first half: once the reminder of an occurrence of a recurring event
\* with an advance reminder has fired and been acknowledged, no step emits
\* that occurrence again.
C4_NoSecondEmission ==
    \A key \in DOMAIN emitted :
        LET i == FirstWithId(events_cache, key[1]) IN
        (i # 0 /\ RecurringWithAdvance(events_cache[i]) /\ FiredAndAcknowledged(key)) =>
            emitted'[key] = emitted[key]

\* C4, second half: when a tick has run to its end and nothing waits under a
\* dialog, every later occurrence (of an event with an acknowledged earlier
\* occurrence) whose trigger instant has passed at the tick has been emitted.
C4_NextOccurrenceEmitted ==
    (last.op = "tick" /\ stack = <<>>) =>
        \A i \in 1..Len(events_cache) :
            LET e == events_cache[i]
                D0 == DateOf(e.start_time)
                today == DateOf(last.arg)
            IN (RecurringWithAdvance(e) /\ ~e.finished) =>
                \A d \in today..(today + LookAheadDays) :
                    ( /\ IsOccurringOn(e, d, D0)
                      /\ TriggerOf(e, d) <= last.arg
                      /\ \E d0 \in D0..(d - 1) : FiredAndAcknowledged(<<e.id, d0>>) )
                    => <<e.id, d>> \in DOMAIN emitted

\* C4: reminder dedup for a recurring event with an advance reminder: an
\* occurrence whose reminder has fired and been acknowledged is never emitted
\* again, and the reminder of the next occurrence is emitted once that
\* occurrence's trigger instant has passed. (The code stamps
\* last_reminded_time with the time of the acknowledgement, which may lie
\* behind the next trigger instant.)
C4_ReminderDedup == [][C4_NoSecondEmission]_vars /\ []C4_NextOccurrenceEmitted

\* C5: over any interleaving of ticks, notification dialogs and
\* acknowledgements, no occurrence is emitted more than once: a tick never
\* emits an occurrence that an earlier tick has emitted. (The code emits it
\* on every tick that runs while its notification is open.)
C5_EachOccurrenceEmittedOnce ==
    \A key \in DOMAIN emitted : emitted[key] = 1

-----------------------------------------------------------------------------
(* Claims about migration and the storage forms *)

\* the title and the reminder fields of two events agree, last_reminded_time
\* up to the minute
SameTitleAndReminder(a, b) ==
    /\ a.title = b.title
    /\ a.reminder_enabled = b.reminder_enabled
    /\ a.reminder_type = b.reminder_type
    /\ a.advance_value = b.advance_value
    /\ a.advance_unit = b.advance_unit
    /\ a.absolute_time = b.absolute_time
    /\ FormatDt(a.last_reminded_time) = FormatDt(b.last_reminded_time)

\* the store after switch_mode(relational) followed by switch_mode(file)
RoundTrip == SwitchStorageMode(SwitchStorageMode(DM, "sqlite"), "ics")

\* C11: in file mode, switch_mode(relational) followed by switch_mode(file)
\* gives a store with exactly the same events, matched by uid, each with its
\* title and reminder fields unchanged; none is lost or duplicated. (The
\* code gives a snooze shadow, stored with uid None, a fresh uid on the
\* reload from the table.)
C11_MigrationRoundTrip ==
    storage_mode = "ics" =>
        LET after == RoundTrip.events_cache IN
        /\ Len(after) = Len(events_cache)
        /\ \A i \in 1..Len(events_cache) :
              /\ Cardinality({j \in 1..Len(after) : after[j].uid = events_cache[i].uid}) = 1
              /\ \A j \in 1..Len(after) :
                    after[j].uid = events_cache[i].uid =>
                        SameTitleAndReminder(events_cache[i], after[j])

SwitchStep(m) == last'.op = "switch_mode" /\ SwitchCall(m)

\* C12: switch_mode from relational to file preserves the id of every event:
\* the events after the switch are those before it, in the same order, each
\* with the id it had. (The code numbers the reloaded events 1..n in file
\* order, whatever id the table had given them.)
C12_SwitchToFilePreservesIds ==
    [][(storage_mode = "sqlite" /\ SwitchStep("ics")) =>
          /\ Len(events_cache') = Len(events_cache)
          /\ \A i \in 1..Len(events_cache) :
                events_cache'[i].id = events_cache[i].id]_vars

\* a and b agree in every field the claim names, the timestamps up to the minute
SameUpToTheMinute(a, b) ==
    /\ a.title = b.title
    /\ a.description = b.description
    /\ a.priority = b.priority
    /\ a.repeat_rule = b.repeat_rule
    /\ a.finished = b.finished
    /\ a.uid = b.uid
    /\ a.reminder_enabled = b.reminder_enabled
    /\ a.reminder_type = b.reminder_type
    /\ a.advance_value = b.advance_value
    /\ a.advance_unit = b.advance_unit
    /\ FormatDt(a.absolute_time) = FormatDt(b.absolute_time)
    /\ FormatDt(a.last_reminded_time) = FormatDt(b.last_reminded_time)
    /\ FormatDt(a.start_time) = FormatDt(b.start_time)
    /\ FormatDt(a.end_time) = FormatDt(b.end_time)

\* C13: for every stored event e, decoding the encoding of e gives e back in
\* every field (timestamps up to the minute), for the calendar component and
\* for the table row alike. (The component carries no priority, and the
\* decoder always answers "medium"; a uid None comes back as the text "None"
\* from the file and as a fresh uid from the table.)
C13_CodecRoundTrip ==
    \A i \in 1..Len(events_cache) :
        LET e == events_cache[i] IN
        /\ SameUpToTheMinute(FromIcalComponent(ToIcalComponent(e), e.id, uuid_next), e)
        /\ SameUpToTheMinute(RowToEvent(RowOf(e.id, EventToTuple(e)), uuid_next), e)

(* Claims about the uid and about edits *)
DistinctUids ==
    \A i, j \in 1..Len(events_cache) :
        i # j => events_cache[i].uid # events_cache[j].uid

\* an update, a snooze or a mode switch leaves every stored event at its
\* place in the cache; its uid there is the one it had
KeepsUids ==
    last'.op \in {"update", "snooze", "switch_mode"} =>
        \A i \in 1..Len(events_cache) :
            i <= Len(events_cache') => events_cache'[i].uid = events_cache[i].uid

\* C14: the stored events have pairwise distinct uids, and no update, snooze
\* or mode switch changes the uid of an event that is stored. (In the code a
\* snooze shadow has uid None: two shadows share it, and a reload from the
\* table replaces it by a fresh uid.)
C14_UidsDistinctAndStable == []DistinctUids /\ [][KeepsUids]_vars

-----------------------------------------------------------------------------
(* Editing: EventDialog, Event.update_from_payload, MainWindow._edit_event *)

MaxEditDay == 2
MaxEdits == 2

\* what the user does in the dialog before pressing OK
Changes == {"none", "title", "later", "toggle_reminder", "type"}

\* EventDialog._fill_data, the user's change, get_event_payload: the payload
\* of a dialog opened on the event x at wall-clock time t. The date and time
\* fields hold no seconds; the texts are written to the minute
GetEventPayload(x, change, t) ==
    LET shift == IF change = "later" THEN SecPerHour ELSE 0 IN
    [title |-> IF change = "title" THEN "Renamed" ELSE x.title,
     start_time |-> FormatDt(ReplaceSecond0(x.start_time) + shift),
     end_time |-> FormatDt(ReplaceSecond0(x.end_time) + shift),
     priority |-> x.priority,
     repeat_rule |-> x.repeat_rule,
     reminder |-> [enabled |-> IF change = "toggle_reminder" THEN ~x.reminder_enabled
                               ELSE x.reminder_enabled,
                   type |-> IF change = "type"
                            THEN (IF x.reminder_type = "advance" THEN "absolute" ELSE "advance")
                            ELSE x.reminder_type,
                   advance_value |-> x.advance_value,
                   advance_unit |-> x.advance_unit,
                   absolute_time |-> FormatDt(IF x.absolute_time # NoneVal
                                              THEN x.absolute_time ELSE t)],
     description |-> x.description,
     finished |-> x.finished]

\* update_from_payload that never clears last_reminded_time
MutUpdateFromPayloadKeepsStamp(e, payload) ==
    LET new_start_time == ParseDt(payload.start_time)
        new_end_time == ParseDt(payload.end_time)
    IN [e EXCEPT !.title = payload.title,
                 !.start_time = IF new_start_time # NoneVal THEN new_start_time ELSE @,
                 !.end_time = IF new_end_time # NoneVal THEN new_end_time ELSE @,
                 !.description = payload.description,
                 !.priority = payload.priority,
                 !.repeat_rule = payload.repeat_rule,
                 !.finished = payload.finished,
                 !.reminder_enabled = payload.reminder.enabled,
                 !.reminder_type = payload.reminder.type,
                 !.advance_value = payload.reminder.advance_value,
                 !.advance_unit = payload.reminder.advance_unit,
                 !.absolute_time = ParseDt(payload.reminder.absolute_time)]

\* Event.update_from_payload
UpdateFromPayload(e, payload) ==
    LET new_start_time == ParseDt(payload.start_time)
        new_end_time == ParseDt(payload.end_time)
        new_enabled == payload.reminder.enabled
        start_moved == new_start_time # NoneVal /\ new_start_time # e.start_time
        switched_on == new_enabled /\ ~e.reminder_enabled
    IN [e EXCEPT !.last_reminded_time = IF start_moved \/ switched_on THEN NoneVal ELSE @,
                 !.title = payload.title,
                 !.start_time = IF new_start_time # NoneVal THEN new_start_time ELSE @,
                 !.end_time = IF new_end_time # NoneVal THEN new_end_time ELSE @,
                 !.description = payload.description,
                 !.priority = payload.priority,
                 !.repeat_rule = payload.repeat_rule,
                 !.finished = payload.finished,
                 !.reminder_enabled = new_enabled,
                 !.reminder_type = payload.reminder.type,
                 !.advance_value = payload.reminder.advance_value,
                 !.advance_unit = payload.reminder.advance_unit,
                 !.absolute_time = ParseDt(payload.reminder.absolute_time)]

\* the events a previous run left: each was reminded of on day 0
EditNames == {"Standup", "Review", "Dentist"}

EditEvent(name, n) ==
    CASE name = "Standup" ->
           [EventOfPayload("Standup", n) EXCEPT !.last_reminded_time = At(0, 9, 0, 0)]
      [] name = "Review" ->
           [NewEvent("Review", At(0, 14, 0, 0), "daily", "medium", FALSE, "advance",
                     10, "minutes", At(0, 14, 0, 0), n)
               EXCEPT !.last_reminded_time = At(0, 13, 50, 0)]
      [] OTHER ->
           [NewEvent("Dentist", At(1, 10, 0, 0), "none", "low", TRUE, "absolute",
                     30, "minutes", At(1, 9, 0, 0), n)
               EXCEPT !.last_reminded_time = At(0, 9, 0, 0)]

EditStoredLists ==
    LET picks == UNION {[1..k -> EditNames] : k \in 1..MaxEvents}
    IN {[k \in 1..Len(q) |-> EditEvent(q[k], k - 1)] :
            q \in {p \in picks : \A i, j \in 1..Len(p) : i # j => p[i] # p[j]}}

\* the program is started on day 1, just after 09:00
InitEdit ==
    /\ now = At(1, 9, 0, 5)
    /\ \E mode \in Modes, stored \in EditStoredLists : InitWith(InitDM(mode, stored))
    /\ SchedulerIdle
    /\ calls = 0
    /\ last = NoCall

\* the k-th item the views show for the date d: an Event object of
\* get_events_between_dates
Shown(d, k) == ListEventsByDate(DM, d)[k]

IsShown(d, k) == k \in 1..Len(ListEventsByDate(DM, d))

OneEdit == calls < MaxEdits /\ calls' = calls + 1

EditFrame ==
    UNCHANGED <<now, current_date, snoozed_ids, stack, emitted, date_changed, deferred>>

\* MainWindow._edit_event on the item shown, the dialog accepted
EditCall(d, k, change) ==
    /\ IsShown(d, k)
    /\ LET e == Shown(d, k)
           payload == GetEventPayload(e, change, now)
           i == FirstWithId(events_cache, e.id)
       IN /\ i # 0
          /\ SetDM(UpdateEvent(DM, UpdateFromPayload(events_cache[i], payload)).dm)
          /\ answer' = payload
          /\ last' = Called("edit", <<d, k>>, change)
    /\ OneEdit
    /\ EditFrame

DoEdit == \E d \in 0..MaxEditDay, k \in 1..MaxEvents, change \in Changes : EditCall(d, k, change)

\* the check box of the item shown: MainWindow._on_calendar_finish_toggled
FinishToggleCall(d, k) ==
    /\ IsShown(d, k)
    /\ LET e == Shown(d, k)
           r == MarkEventAsFinished(DM, e.id, ~e.finished)
       IN /\ SetDM(r.dm)
          /\ last' = Called("finish", <<d, k>>, r.ret)
    /\ OneEdit
    /\ EditFrame
    /\ UNCHANGED answer

DoFinishToggle == \E d \in 0..MaxEditDay, k \in 1..MaxEvents : FinishToggleCall(d, k)

\* the item shown is one a tick at this time emits
IsDue(d, k) ==
    /\ d >= DateOf(now)
    /\ IsShown(d, k)
    /\ ShouldRemind(Shown(d, k), ReplaceSecond0(now))

\* MainWindow._on_reminder for the item, the notification closed at once
AcknowledgeCall(d, k) ==
    /\ IsDue(d, k)
    /\ SetDM(MarkEventAsReminded(DM, Shown(d, k).id, now))
    /\ last' = Called("acknowledge", <<d, k>>, TRUE)
    /\ OneEdit
    /\ EditFrame
    /\ UNCHANGED answer

DoAcknowledge == \E d \in 0..MaxEditDay, k \in 1..MaxEvents : AcknowledgeCall(d, k)

\* MainWindow._on_reminder for the item, snoozed from the notification
SnoozeShownCall(d, k, m) ==
    /\ IsDue(d, k)
    /\ LET S == Snooze(DM, Shown(d, k).id, m, now)
       IN Bounded(S) /\ SetDM(S)
    /\ last' = Called("snooze", <<d, k>>, m)
    /\ OneEdit
    /\ EditFrame
    /\ UNCHANGED answer

DoSnoozeShown ==
    \E d \in 0..MaxEditDay, k \in 1..MaxEvents, m \in SnoozeMinutes : SnoozeShownCall(d, k, m)

NextEdit ==
    \/ DoEdit
    \/ DoFinishToggle
    \/ DoAcknowledge
    \/ DoSnoozeShown

SpecEdit == InitEdit /\ [][NextEdit]_vars

EditStep(d, k, change) == last'.op = "edit" /\ EditCall(d, k, change)

\* the stored event an operation on the item shown acts on (0: none)
OriginOf(d, k) == FirstWithId(events_cache, Shown(d, k).id)

\* C15: an edit clears last_reminded_time of the stored event when the
\* payload's start_time differs from the event's or when the payload enables
\* a reminder that was disabled; every other edit leaves last_reminded_time
\* as it was.
C15_EditResetsStampOnlyOnMoveOrEnable ==
    [][\A d \in 0..MaxEditDay, k \in 1..MaxEvents, change \in Changes :
          EditStep(d, k, change) =>
              LET i == OriginOf(d, k)
                  old == events_cache[i]
                  new == events_cache'[i]
                  payload == GetEventPayload(Shown(d, k), change, now)
              IN new.last_reminded_time =
                    IF \/ ParseDt(payload.start_time) # old.start_time
                       \/ (payload.reminder.enabled /\ ~old.reminder_enabled)
                    THEN NoneVal
                    ELSE old.last_reminded_time]_vars

\* an edit that moved the start has cleared the stamp, in file mode and on disk
C15_Witness ==
    /\ last.op = "edit" /\ last.ret = "later"
    /\ \E i \in 1..Len(events_cache) :
          /\ FormatDt(events_cache[i].start_time) = answer.start_time
          /\ events_cache[i].last_reminded_time = NoneVal
          /\ PersistedReminder(i)[4] = NoneVal

\* the item shown is a virtual occurrence: it stands on a later date than the
\* stored event it was copied from
IsVirtual(d, k) ==
    /\ IsShown(d, k)
    /\ OriginOf(d, k) # 0
    /\ events_cache[OriginOf(d, k)].repeat_rule # "none"
    /\ DateOf(events_cache[OriginOf(d, k)].start_time) < d

\* this step is an operation on the item shown that sets no time field: an
\* edit saved with the time fields as the dialog showed them, a finish
\* toggle, an acknowledgement or a snooze
TimelessStep(d, k) ==
    \/ \E change \in Changes \ {"later"} : EditStep(d, k, change)
    \/ last'.op = "finish" /\ FinishToggleCall(d, k)
    \/ last'.op = "acknowledge" /\ AcknowledgeCall(d, k)
    \/ \E m \in SnoozeMinutes : last'.op = "snooze" /\ SnoozeShownCall(d, k, m)

\* C16: an operation started from a virtual occurrence that sets no time
\* field leaves start_time and end_time of the stored origin as they were.
\* (In the code the dialog is filled with the occurrence's times, and
\* _edit_event writes them to the origin.)
C16_VirtualOccurrenceNeverPersisted ==
    [][\A d \in 0..MaxEditDay, k \in 1..MaxEvents :
          (IsVirtual(d, k) /\ TimelessStep(d, k)) =>
              LET i == OriginOf(d, k) IN
              /\ events_cache'[i].start_time = events_cache[i].start_time
              /\ events_cache'[i].end_time = events_cache[i].end_time]_vars

-----------------------------------------------------------------------------
(* Claims about the tick, checked under SpecRem *)

TickStep == last'.op = "tick" /\ Tick

\* the occurrences a tick at this time is given, as places <<date, position>>
\* of the answer for [today, today + 30]
TickAnswer == GetEventsBetweenDates(DM, DateOf(now), DateOf(now) + LookAheadDays)

PlacesIn(result) == UNION {{<<d, k>> : k \in 1..Len(result[d])} : d \in DOMAIN result}

Before(p, q) == p[1] < q[1] \/ (p[1] = q[1] /\ p[2] <= q[2])

\* the trigger instant T of an occurrence, cut to the whole minute
TruncatedTrigger(x) ==
    ReplaceSecond0(IF x.reminder_type = "absolute" THEN x.absolute_time
                   ELSE x.start_time - AdvanceDelta(x))

\* the condition of the claim for the occurrence x at the instant t
DueByTheClaim(x, t) ==
    /\ ~x.finished
    /\ x.reminder_enabled
    /\ t >= TruncatedTrigger(x)
    /\ (x.last_reminded_time = NoneVal \/ x.last_reminded_time < TruncatedTrigger(x))

C18_LaterOccurrenceLaterTrigger ==
    LET shown == GetEventsBetweenDates(DM, 0, MaxEditDay) IN
    \A p, q \in PlacesIn(shown) :
        LET x == shown[p[1]][p[2]]
            y == shown[q[1]][q[2]]
        IN ( /\ p[1] < q[1]
             /\ x.id = y.id
             /\ x.repeat_rule # "none"
             /\ x.reminder_enabled /\ y.reminder_enabled )
           => CalcTriggerDt(x) < CalcTriggerDt(y)

\* this step closes the notification on top, which was not snoozed
DismissStep ==
    /\ last'.op = "close"
    /\ CloseDialog
    /\ stack[Len(stack)].id \notin snoozed_ids

\* every notification that is open shows an event of the store
DialogsShowStoredEvents ==
    \A f \in 1..Len(stack) :
        stack[f].kind = "dialog" => FirstWithId(events_cache, stack[f].id) # 0

\* the stored event o is the one the occurrence x was made from: they have
\* one uid (an event stored without uid is told by its id and title)
SameStoredEvent(o, x) ==
    IF o.uid = NoUid THEN o.id = x.id /\ o.title = x.title ELSE o.uid = x.uid

\* the occurrences of the tick's answer that are due by the claim's condition
DuePlaces == {p \in PlacesIn(TickAnswer) : DueByTheClaim(TickAnswer[p[1]][p[2]], now)}

\* the event the notification on top of the stack shows after this step
ShownNext == events_cache'[FirstWithId(events_cache', stack'[Len(stack')].id)]

\* a tick that emits hands the notification the stored origin of the
\* occurrence that is due: the stored event of the same uid
EmitsTheOrigin ==
    (TickStep /\ DuePlaces # {}) =>
        LET p == CHOOSE p \in DuePlaces : \A q \in DuePlaces : Before(p, q)
        IN SameStoredEvent(ShownNext, TickAnswer[p[1]][p[2]])

\* C19: closing a notification without snoozing sets last_reminded_time of
\* the stored origin to the current instant, in the cache and (to the minute)
\* in the active backend; no other event and no other field changes; the
\* event a notification shows is always the stored origin of the occurrence
\* that was due. (In the code the origin is looked up by id, and two stored
\* events can have one id.)
C19_DismissStampsOnlyTheOrigin ==
    /\ [][DismissStep =>
             LET i == FirstWithId(events_cache, stack[Len(stack)].id) IN
             /\ i # 0
             /\ events_cache' = [events_cache EXCEPT ![i].last_reminded_time = now]
             /\ IF storage_mode = "sqlite"
                THEN /\ db_rows' = [k \in 1..Len(db_rows) |->
                                      IF db_rows[k].id = events_cache[i].id
                                      THEN [db_rows[k] EXCEPT
                                               !.cols.last_reminded_time = FormatDt(now)]
                                      ELSE db_rows[k]]
                     /\ ics_file' = ics_file
                ELSE /\ ics_file' = [ics_file EXCEPT ![i].x_last_reminded = FormatDt(now)]
                     /\ db_rows' = db_rows
             /\ UNCHANGED <<storage_mode, db_seq, next_event_id, uuid_next>>]_vars
    /\ [][EmitsTheOrigin]_vars
    /\ []DialogsShowStoredEvents

-----------------------------------------------------------------------------
(* The minutes after a snooze: the clock is read at 09:00:05, and around the
   instant a snooze of five minutes made then defers to *)

SnoozeInstants == {At(0, 9, 0, 5), At(0, 9, 5, 2), At(0, 9, 5, 10)}

ClockAdvanceSnooze ==
    /\ \E t \in SnoozeInstants : t > now /\ now' = t
    /\ StoreUntouched
    /\ UNCHANGED <<current_date, snoozed_ids, stack, emitted, date_changed, answer, deferred,
                   calls, last>>

NextSnooze ==
    \/ ClockAdvanceSnooze
    \/ Tick
    \/ CloseDialog
    \/ DoSnoozeClick

SpecSnooze == InitRem /\ [][NextSnooze]_vars

\* the instant t + N a snooze defers its item to
DeferredTo(r) == r.at + r.minutes * SecPerMin

\* the item of the snooze r has been emitted after the snooze
EmittedSince(r, em) ==
    \E key \in DOMAIN em :
        /\ key[1] = r.item
        /\ (key \notin DOMAIN r.before \/ em[key] > r.before[key])

\* no notification of the snoozed event is open
NotificationClosed(r) ==
    \A f \in 1..Len(stack) : stack[f].kind = "dialog" => stack[f].id # r.origin

\* before t + N the snoozed item has not been emitted again
NotEmittedEarly ==
    \A k \in 1..Len(deferred) :
        now < DeferredTo(deferred[k]) => ~EmittedSince(deferred[k], emitted)

\* a tick at or after t + N, the notification closed and the item not yet
\* emitted again, emits the item (or stops under the notification of an
\* occurrence that comes before it)
EmittedWhenDue ==
    \A k \in 1..Len(deferred) :
        ( /\ TickStep
          /\ NotificationClosed(deferred[k])
          /\ now >= DeferredTo(deferred[k])
          /\ ~EmittedSince(deferred[k], emitted) )
        => (EmittedSince(deferred[k], emitted') \/ Len(stack') > Len(stack))

\* C20: after a snooze by N minutes at t, with the notification closed, no
\* tick before t + N emits the snoozed item (the event itself, or the shadow
\* of a recurring event) and the first tick at or after t + N emits it:
\* closing the notification does not stamp last_reminded_time so that the
\* deferred reminder is lost. (In the code a second notification of the same
\* event can be open under the one that was snoozed; closing it stamps the
\* event.)
C20_SnoozeDefersTheReminder == []NotEmittedEarly /\ [][EmittedWhenDue]_vars

-----------------------------------------------------------------------------
(* A session: events are added and the mode is switched from the main
   window while no notification is open; the timer ticks throughout *)

AddWhenIdle == stack = <<>> /\ DoAddEvent

SwitchWhenIdle == stack = <<>> /\ DoSwitchStorageMode

NextSession ==
    \/ AddWhenIdle
    \/ SwitchWhenIdle
    \/ ClockAdvance
    \/ Tick
    \/ CloseDialog

SpecSession == Init /\ [][NextSession]_vars

-----------------------------------------------------------------------------
(* More claims about the occurrence expander, checked under SpecQuery *)

\* bucket d of the answer lists the stored event e itself
ListedIn(d, e) == \E k \in 1..Len(answer[d]) : answer[d][k] = e

\* C21: a non-recurring event with an absolute reminder whose reminder date R
\* lies in the range queried and differs from its start date D is listed,
\* unmodified, in bucket R, and in bucket D as well whenever D is in the range.
C21_ListedOnItsReminderDate ==
    Queried =>
        \A i \in 1..Len(events_cache) :
            LET e == events_cache[i]
                D == DateOf(e.start_time)
                R == DateOf(e.absolute_time)
            IN (/\ e.repeat_rule = "none"
                /\ e.reminder_type = "absolute"
                /\ e.absolute_time # NoneVal
                /\ R # D
                /\ QueryStart <= R /\ R <= QueryEnd) =>
                   /\ ListedIn(R, e)
                   /\ (QueryStart <= D /\ D <= QueryEnd) => ListedIn(D, e)

-----------------------------------------------------------------------------
(* The occurrence expander over a store of recurring events, queried in the
   weeks after the origin dates, in the two months that follow and a year
   later *)

\* the recurring events earlier runs have stored; n: the uuid4() values drawn before
\*   Daily    from 2025-01-04 08:00
\*   Weekly   from 2025-01-08 18:30 (a Wednesday)
\*   Monthly  from 2025-01-31 12:00
\*   Rent     from 2025-01-15 09:00, monthly
\*   Yearly   from 2025-01-20 07:00
RecurEvent(name, n) ==
    CASE name = "Daily" ->
            NewEvent(name, At(3, 8, 0, 0), "daily", "medium", TRUE, "advance", 10, "minutes",
                     At(3, 8, 0, 0), n)
      [] name = "Weekly" ->
            NewEvent(name, At(7, 18, 30, 0), "weekly", "high", TRUE, "advance", 1, "hours",
                     At(7, 18, 30, 0), n)
      [] name = "Monthly" ->
            NewEvent(name, At(30, 12, 0, 0), "monthly", "low", FALSE, "advance", 30, "minutes",
                     At(30, 12, 0, 0), n)
      [] name = "Rent" ->
            NewEvent(name, At(14, 9, 0, 0), "monthly", "high", TRUE, "advance", 1, "days",
                     At(14, 9, 0, 0), n)
      [] OTHER ->
            NewEvent(name, At(19, 7, 0, 0), "yearly", "medium", TRUE, "advance", 30, "minutes",
                     At(19, 7, 0, 0), n)

InitRecur ==
    LET names == {"Daily", "Weekly", "Monthly", "Rent", "Yearly"}
        picks == UNION {[1..k -> names] : k \in 0..MaxEvents}
        lists == {[k \in 1..Len(q) |-> RecurEvent(q[k], k - 1)] :
                     q \in {p \in picks : \A i, j \in 1..Len(p) : i # j => p[i] # p[j]}}
    IN /\ now = At(0, 8, 59, 50)
       /\ \E mode \in Modes, stored \in lists : InitWith(InitDM(mode, stored))
       /\ SchedulerIdle
       /\ calls = 0
       /\ last = NoCall

\* CalendarView after prev/next: a range that starts in the first weeks of
\* 2025-01, 2025-02, in the second half of 2025-03 or in 2026-01. A query
\* writes nothing that a query reads, so the first query of a run is followed.
DoQueryRecur ==
    /\ last.op = NoCall.op
    /\ \E first \in {0, 31, 75, 370}, offset \in 0..MaxQueryStart, len \in RangeLengths :
          QueryCall(first + offset, first + offset + len - 1)

NextRecur == DoQueryRecur

SpecRecur == InitRecur /\ [][NextRecur]_vars

\* the rule of the claim: date d is an occurrence date of a series with rule
\* repeat_rule and origin date D0
OccursByRule(repeat_rule, d, D0) ==
    /\ d >= D0
    /\ CASE repeat_rule = "daily" -> TRUE
         [] repeat_rule = "weekly" -> (d - D0) % 7 = 0
         [] repeat_rule = "monthly" -> CivilOf(d).day = CivilOf(D0).day
         [] repeat_rule = "yearly" ->
               CivilOf(d).month = CivilOf(D0).month /\ CivilOf(d).day = CivilOf(D0).day
         [] OTHER -> FALSE

\* the positions of bucket d that list an occurrence of e
OccurrencesOn(d, e) == {k \in 1..Len(answer[d]) : answer[d][k].uid = e.uid}

\* C22: for a recurring event with origin date D0, the answer to
\* query_range(S, E) lists exactly one occurrence on each date of [S, E] on or
\* after D0 that satisfies the rule (daily, same weekday, same day-of-month,
\* same month and day-of-month), and none on any other date of the range; the
\* answer has no bucket outside [S, E].
C22_OneOccurrencePerRuleDate ==
    Queried =>
        /\ DOMAIN answer = QueryStart..QueryEnd
        /\ \A i \in 1..Len(events_cache) :
              LET e == events_cache[i]
                  D0 == DateOf(e.start_time)
              IN e.repeat_rule # "none" =>
                    \A d \in QueryStart..QueryEnd :
                        Cardinality(OccurrencesOn(d, e)) =
                            IF OccursByRule(e.repeat_rule, d, D0) THEN 1 ELSE 0

\* a range from the second half of 2025-03 into 2025-04 over a store with the
\* monthly event anchored on the 31st: one occurrence on 2025-03-31, none in
\* 2025-04
C22_Witness ==
    /\ Queried
    /\ QueryStart < 89 /\ QueryEnd >= 105
    /\ \E i \in 1..Len(events_cache) :
          LET e == events_cache[i] IN
          /\ e.repeat_rule = "monthly"
          /\ CivilOf(DateOf(e.start_time)).day = 31
          /\ Cardinality(OccurrencesOn(89, e)) = 1
          /\ \A d \in 90..QueryEnd : OccurrencesOn(d, e) = {}

\* e with both times shifted by whole days
ShiftedByDays(e, days) ==
    [e EXCEPT !.start_time = @ + days * SecPerDay, !.end_time = @ + days * SecPerDay]

\* C23: every occurrence the answer lists for a recurring event on a date other
\* than the origin date carries the origin's id, uid and all other fields, with
\* start_time and end_time both shifted by exactly the days between the origin
\* date and the occurrence date; the occurrence on the origin date is the
\* stored event itself, unshifted.
C23_OccurrenceIsTheOriginShifted ==
    Queried =>
        \A i \in 1..Len(events_cache) :
            LET e == events_cache[i]
                D0 == DateOf(e.start_time)
            IN e.repeat_rule # "none" =>
                  \A d \in QueryStart..QueryEnd : \A k \in OccurrencesOn(d, e) :
                      answer[d][k] = ShiftedByDays(e, d - D0)

-----------------------------------------------------------------------------
(* More claims about the reminder scheduler *)

\* a tick emits dateChanged iff today's date differs from the last-seen date,
\* and leaves today's date as the last-seen date
RolloverStep ==
    TickStep =>
        /\ date_changed' = date_changed + (IF DateOf(now) # current_date THEN 1 ELSE 0)
        /\ current_date' = DateOf(now)

\* right after a tick the last-seen date is the date of that tick
LastSeenIsLastTick == last.op = "tick" => current_date = DateOf(last.arg)

\* no step but a tick emits dateChanged or touches the last-seen date
OnlyTicksSeeTheDate ==
    ~TickStep => (current_date' = current_date /\ date_changed' = date_changed)

\* C24: a tick emits the day-changed notification iff today's date differs
\* from the last-seen date, and then sets last-seen to today; so the
\* notification is emitted once for each change of date a tick observes and
\* never on a tick within the same day as the previous tick.
C24_DayRollover ==
    /\ []LastSeenIsLastTick
    /\ [][RolloverStep /\ OnlyTicksSeeTheDate]_vars

\* a tick on 2025-01-02 has emitted the notification, and the tick that
\* follows at the same instant has not emitted it again
C24_Witness ==
    /\ last.op = "tick" /\ DateOf(last.arg) = 1
    /\ current_date = 1 /\ date_changed = 1
    /\ Len(stack) >= 4

-----------------------------------------------------------------------------
(* The scheduler with a backend that may fail: sqlite3 raising in the SELECT
   of a tick, the write of an acknowledgement failing *)

MaxFaults == 1           \* failures of the backend in a run

\* the process runs: abort() has not been called
Alive == last.op # "abort"

\* check_reminders in relational mode with sqlite3 raising in
\* get_events_between_dates: the rollover test has run, the exception leaves
\* the slot. Nothing in check_reminders or around it catches it and no
\* sys.excepthook is installed; the binding then either reports the exception
\* and returns to the event loop (the tick is abandoned), or calls qFatal(),
\* which aborts the process, depending on its version.
TickReadFails ==
    /\ Alive
    /\ storage_mode = "sqlite"
    /\ LET tick_now == ReplaceSecond0(now)
           today_date == DateOf(tick_now)
       IN /\ current_date' = today_date
          /\ date_changed' = IF today_date # current_date THEN date_changed + 1
                             ELSE date_changed
          /\ \E outcome \in {"tick_abandoned", "abort"} :
                last' = Called(outcome, tick_now, FALSE)
    /\ calls < MaxFaults
    /\ calls' = calls + 1
    /\ StoreUntouched
    /\ UNCHANGED <<now, snoozed_ids, stack, emitted, answer, deferred>>

\* the notification on top is closed and the write of update_event fails:
\* the cached event is stamped, _save_events_to_ics catches its exception,
\* _mark_event_as_reminded catches the one of _update_event_db; the loop of
\* the tick that emitted the notification goes on
CloseWriteFails ==
    /\ Alive
    /\ stack # <<>>
    /\ LET top == stack[Len(stack)]
           below == stack[Len(stack) - 1]
           base == SubSeq(stack, 1, Len(stack) - 2)
           i == FirstWithId(events_cache, top.id)
           S == [DM EXCEPT !.events_cache[i].last_reminded_time = now]
           r == ContinueTick(S, base, below.todo, below.now)
       IN /\ top.id \notin snoozed_ids
          /\ i # 0
          /\ SetDM(S)
          /\ stack' = r.stack
          /\ emitted' = Emit(emitted, r.key)
          /\ last' = Called("close_unsaved", top.id, r.key # <<>>)
    /\ calls < MaxFaults
    /\ calls' = calls + 1
    /\ UNCHANGED <<now, current_date, snoozed_ids, date_changed, answer, deferred>>

NextFault ==
    \/ Alive /\ ClockAdvance
    \/ Alive /\ Tick
    \/ Alive /\ CloseDialog
    \/ TickReadFails
    \/ CloseWriteFails

SpecFault == InitRem /\ [][NextFault]_vars

\* after a failed write the loop of the tick has gone on to its next due entry
RestOfTickProcessed ==
    (last'.op = "close_unsaved" /\ CloseWriteFails) =>
        LET below == stack[Len(stack) - 1]
            k == DueIndex([DM EXCEPT !.events_cache = events_cache'], below.todo, below.now)
        IN IF k = 0 THEN emitted' = emitted /\ Len(stack') = Len(stack) - 2
           ELSE /\ emitted' = Emit(emitted, <<below.todo[k].e.id, below.todo[k].date>>)
                /\ Len(stack') = Len(stack)

\* C25: an error while resolving or persisting one occurrence during a tick
\* (no origin found, the store read or write failing) never stops the
\* scheduler: the remaining occurrences of that tick are still processed and
\* every later tick still runs.
C25_SchedulerSurvivesErrors ==
    /\ [](Alive /\ last.op # "tick_abandoned")
    /\ [][RestOfTickProcessed]_vars

-----------------------------------------------------------------------------
(* Claims about the cache and the backend *)

\* what reload_events would read from the active backend now
Reloaded == ReloadEvents(DM).events_cache

\* C26: the cache mirrors the active backend: after every completed add,
\* update, delete, snooze, import or switch_mode, reloading the events from
\* the persisted store of the active mode gives the same events, matched by
\* uid, with the same field values as the cache, timestamps to the minute.
C26_CacheMirrorsTheBackend ==
    /\ Len(Reloaded) = Len(events_cache)
    /\ \A i \in 1..Len(events_cache) :
          \E j \in 1..Len(Reloaded) :
              /\ Reloaded[j].uid = events_cache[i].uid
              /\ SameUpToTheMinute(Reloaded[j], events_cache[i])

-----------------------------------------------------------------------------
(* More claims about the operations on an item shown, checked under SpecEdit *)

\* the step is a user action on one item shown: the finish toggle or an edit
ActsOnAnItem == last'.op \in {"finish", "edit"} /\ (DoFinishToggle \/ DoEdit)

\* C27: the finished flag of a recurring event is never changed by a user
\* action taken on a single occurrence of it: no finish toggle on an item of a
\* recurring event changes it, and saving an edit keeps the stored value.
C27_SeriesFinishedFlagKept ==
    [][ActsOnAnItem =>
        /\ Len(events_cache') = Len(events_cache)
        /\ \A i \in 1..Len(events_cache) :
              events_cache[i].repeat_rule # "none" =>
                  events_cache'[i].finished = events_cache[i].finished]_vars

-----------------------------------------------------------------------------
(* More claims about what a tick emits, checked under SpecRem *)

\* the stored event e has a reminder that has been due since before instant t
\* and has never been reminded of
NeverRemindedAndDue(e, t) ==
    /\ ~e.finished
    /\ e.reminder_enabled
    /\ e.last_reminded_time = NoneVal
    /\ TruncatedTrigger(e) <= t

\* C28: no reminder is missed: every stored event that is not finished, has
\* its reminder enabled, has never been reminded and whose trigger instant is
\* at or before now is emitted on the next tick, however long ago the trigger
\* passed. A tick that has returned with no notification open has emitted
\* nothing, so after such a tick no stored event is in that condition.
C28_NoReminderMissed ==
    (last.op = "tick" /\ stack = <<>>) =>
        \A i \in 1..Len(events_cache) : ~NeverRemindedAndDue(events_cache[i], last.arg)

-----------------------------------------------------------------------------
(* One tick followed to its end: no other tick emits anything *)

\* check_reminders while no tick has emitted anything yet
TickAlone == emitted = <<>> /\ Tick

NextTick ==
    \/ ClockAdvanceRem
    \/ TickAlone
    \/ CloseDialog

SpecTick == InitRem /\ [][NextTick]_vars

\* C29: within a single tick each stored event is emitted at most once, even
\* when several of its occurrences in the look-ahead window have passed their
\* trigger instant and even after the first emission of that tick has been
\* acknowledged. (Every emission recorded comes from the one tick that has
\* emitted anything.)
C29_OncePerEventAndTick ==
    \A p, q \in DOMAIN emitted :
        /\ emitted[p] = 1
        /\ p[1] = q[1] => p = q

-----------------------------------------------------------------------------
(* Claims about the stamp of an acknowledgement, checked under SpecRem *)

\* the store after a switch to the other mode
Switched == SwitchStorageMode(DM, IF storage_mode = "ics" THEN "sqlite" ELSE "ics")

\* minute-aligned trigger instants at or before the stamp s of the stored
\* event e: those of its occurrences on the next days and the whole minutes
\* just before s
TriggersUpTo(e, s) ==
    {T \in {TruncatedTrigger(e)}
            \cup {TruncatedTrigger(VirtualEvent(e, d, uuid_next)) : d \in 1..(MaxDay + 1)}
            \cup {ReplaceSecond0(s) - k * SecPerMin : k \in 0..2} : T <= s}

\* the stamp v is absent or before T: the test that arms the reminder
Arms(v, T) == v = NoneVal \/ v < T

\* C30: minute truncation never re-arms a reminder: when last_reminded_time
\* was stamped at or after a minute-aligned trigger instant T, the stamp as
\* written to the file or row, as read back by a reload, as it is after a
\* mode switch and as a virtual copy carries it is still not before T.
C30_TruncationNeverRearms ==
    /\ Len(Reloaded) = Len(events_cache)
    /\ Len(Switched.events_cache) = Len(events_cache)
    /\ \A i \in 1..Len(events_cache) :
          LET e == events_cache[i]
              s == e.last_reminded_time
          IN s # NoneVal =>
                \A T \in TriggersUpTo(e, s) :
                    /\ ~Arms(ParseDt(PersistedReminder(i)[4]), T)
                    /\ ~Arms(Reloaded[i].last_reminded_time, T)
                    /\ ~Arms(Switched.events_cache[i].last_reminded_time, T)
                    /\ \A d \in 1..(MaxDay + 1) :
                          ~Arms(VirtualEvent(e, d, uuid_next).last_reminded_time, T)

\* a daily event was acknowledged some seconds after the whole minute of its
\* trigger, and the backend holds the stamp without the seconds
C30_Witness ==
    \E i \in 1..Len(events_cache) :
        LET e == events_cache[i]
            s == e.last_reminded_time
        IN /\ e.repeat_rule = "daily"
           /\ s # NoneVal
           /\ s # ReplaceSecond0(s)
           /\ TruncatedTrigger(e) = ReplaceSecond0(s)
           /\ ParseDt(PersistedReminder(i)[4]) = ReplaceSecond0(s)

====
